---- MODULE Spec2Model ----
(***************************************************************************)
(* Loan pricing and amortization engine of the loan agent:                 *)
(*   src/src/utils/amortization.py, src/src/services/loan_engine.py,       *)
(*   src/src/domain/risk_tiers.py, src/src/api/routes.py, src/src/app.py,  *)
(*   src/src/services/model_client.py, src/src/utils/http.py.              *)
(*                                                                         *)
(* Units.  Money is an integer number of cents, except where the code      *)
(* handles a value it has not yet rounded (the principal handed to         *)
(* amortization_schedule, an allocation): those are integers of mills      *)
(* (1/1000 USD).  Rates are integers of 1/10000 (0.1233 is 1233).          *)
(* Percent outputs are integers of 1/100 percent.                          *)
(*                                                                         *)
(* The code computes in binary doubles and rounds with                     *)
(* Decimal(str(x)).quantize(..., ROUND_HALF_UP).  The model computes the   *)
(* same doubles: an amount or a rate is the double its decimal reads as,   *)
(* +, -, * and / give the nearest double, and _q2 and fmt round the        *)
(* shortest decimal that reads back as the double.  The power of the       *)
(* annuity formula comes from the C library, which may return either of    *)
(* the two doubles around an exact power that lies close to their          *)
(* midpoint: each call that computes it chooses (far, fars).  A product    *)
(* or quotient whose exact value is a tie (..5) and whose double falls     *)
(* under it is rounded down, as the code does.  Where the code adds        *)
(* amounts of whole                                                        *)
(* cents and rounds the sum (sum_schedules, the sum of the level           *)
(* payments), the model adds the cents as integers: the double sum lies    *)
(* within a few units of its last binary place of that number of cents.    *)
(***************************************************************************)
EXTENDS Integers, Sequences, FiniteSets, TLC

VARIABLES
    req,    \* the body of the request POST /loan/calculate is serving
    pc,     \* where loan_calculate stands
    iter,   \* the locals of each pass of its loop so far, the current pass last
    hrows,  \* its list rows
    resp,   \* the response sent (NoValue before)
    arg,    \* the arguments of an engine call made on its own
    ret,    \* what that call returned, or has built so far
    fpc,    \* where that call stands
    risk_tiers  \* the module global RISK_TIERS as the process holds it

hvars == <<req, pc, iter, hrows, resp>>
fvars == <<arg, ret, fpc>>
vars == <<req, pc, iter, hrows, resp, arg, ret, fpc, risk_tiers>>

NoValue == [none |-> TRUE]

\* no request is being served
HandlerIdle ==
    /\ req = NoValue /\ pc = "idle" /\ iter = <<>> /\ hrows = <<>> /\ resp = NoValue

\* no engine call is made on its own
EngineIdle == arg = NoValue /\ ret = NoValue /\ fpc = "idle"

----------------------------------------------------------------------------
(* Exact arithmetic on naturals wider than a machine word: little-endian   *)
(* sequences of limbs, most significant limb non-zero, <<>> for 0.         *)

BigBase == 2 ^ 15

RECURSIVE BigOf(_)
BigOf(n) == IF n = 0 THEN <<>> ELSE <<n % BigBase>> \o BigOf(n \div BigBase)

RECURSIVE BigNorm(_)
BigNorm(a) ==
    IF a = <<>> THEN <<>>
    ELSE IF a[Len(a)] = 0 THEN BigNorm(SubSeq(a, 1, Len(a) - 1))
    ELSE a

\* the one element of a singleton: The({ e(v) : v \in {x} }) is e(x), with
\* x evaluated once
The(S) == CHOOSE v \in S : TRUE

\* limb i of a, zero above its top limb
Limb(a, i) == IF i <= Len(a) THEN a[i] ELSE 0

\* limbs lo..hi of a + b + c for a carry c into limb lo, and the carry out
\* of limb hi after them; the lower half first, its carry into the upper
RECURSIVE BigAddSeg(_, _, _, _, _)
BigAddSeg(a, b, c, lo, hi) ==
    IF lo = hi
    THEN << (Limb(a, lo) + Limb(b, lo) + c) % BigBase,
            (Limb(a, lo) + Limb(b, lo) + c) \div BigBase >>
    ELSE The({ SubSeq(low, 1, Len(low) - 1)
               \o BigAddSeg(a, b, low[Len(low)], (lo + hi) \div 2 + 1, hi) :
               low \in { BigAddSeg(a, b, c, lo, (lo + hi) \div 2) } })

BigAddC(a, b, c) ==
    IF a = <<>> /\ b = <<>> THEN (IF c = 0 THEN <<>> ELSE <<c>>)
    ELSE BigNorm(BigAddSeg(a, b, c, 1, IF Len(a) < Len(b) THEN Len(b) ELSE Len(a)))

BigAdd(a, b) == BigAddC(a, b, 0)

\* limbs lo..hi of a - b - c for a borrow c from limb lo, and the borrow
\* from the limb above hi after them
RECURSIVE BigSubSeg(_, _, _, _, _)
BigSubSeg(a, b, c, lo, hi) ==
    IF lo = hi
    THEN IF a[lo] - Limb(b, lo) - c < 0
         THEN << a[lo] - Limb(b, lo) - c + BigBase, 1 >>
         ELSE << a[lo] - Limb(b, lo) - c, 0 >>
    ELSE The({ SubSeq(low, 1, Len(low) - 1)
               \o BigSubSeg(a, b, low[Len(low)], (lo + hi) \div 2 + 1, hi) :
               low \in { BigSubSeg(a, b, c, lo, (lo + hi) \div 2) } })

\* a - b for a >= b
BigSub(a, b) ==
    IF b = <<>> THEN a ELSE BigNorm(BigSubSeg(a, b, 0, 1, Len(a)))

\* limbs lo..hi of a * k + c for a carry c into limb lo, and the carry out
\* of limb hi after them
RECURSIVE BigMulLimbSeg(_, _, _, _, _)
BigMulLimbSeg(a, k, c, lo, hi) ==
    IF lo = hi
    THEN << (a[lo] * k + c) % BigBase, (a[lo] * k + c) \div BigBase >>
    ELSE The({ SubSeq(low, 1, Len(low) - 1)
               \o BigMulLimbSeg(a, k, low[Len(low)], (lo + hi) \div 2 + 1, hi) :
               low \in { BigMulLimbSeg(a, k, c, lo, (lo + hi) \div 2) } })

\* a * k + c for limbs k > 0 and c
BigMulLimb(a, k, c) ==
    IF a = <<>> THEN BigOf(c) ELSE BigNorm(BigMulLimbSeg(a, k, c, 1, Len(a)))

\* a times the limbs lo..hi of b, the lower half and the upper half apart
RECURSIVE BigMulSeg(_, _, _, _)
BigMulSeg(a, b, lo, hi) ==
    IF lo = hi THEN BigMulLimb(a, b[lo], 0)
    ELSE BigAdd(BigMulSeg(a, b, lo, (lo + hi) \div 2),
                [i \in 1..((lo + hi) \div 2 - lo + 1) |-> 0]
                \o BigMulSeg(a, b, (lo + hi) \div 2 + 1, hi))

BigMul(a, b) ==
    IF a = <<>> \/ b = <<>> THEN <<>> ELSE BigNorm(BigMulSeg(a, b, 1, Len(b)))

RECURSIVE BigLeqFrom(_, _, _)
BigLeqFrom(a, b, i) ==
    IF i = 0 THEN TRUE
    ELSE IF a[i] # b[i] THEN a[i] < b[i]
    ELSE BigLeqFrom(a, b, i - 1)

BigLeq(a, b) ==
    IF Len(a) # Len(b) THEN Len(a) < Len(b) ELSE BigLeqFrom(a, b, Len(a))

RECURSIVE BigPow(_, _)
BigPow(a, n) == IF n = 0 THEN <<1>> ELSE BigMul(BigPow(a, n - 1), a)

\* floor(a / b) for b > 0 and a quotient below 2^30, by bisection
RECURSIVE BigQuotIn(_, _, _, _)
BigQuotIn(a, b, lo, hi) ==
    IF lo = hi THEN lo
    ELSE LET mid == (lo + hi + 1) \div 2
         IN  IF BigLeq(BigMul(b, BigOf(mid)), a)
             THEN BigQuotIn(a, b, mid, hi)
             ELSE BigQuotIn(a, b, lo, mid - 1)

BigQuot(a, b) ==
    IF Len(a) < Len(b) THEN 0
    ELSE IF Len(a) - Len(b) >= 2 THEN BigQuotIn(a, b, 0, 2 ^ 30)
    ELSE BigQuotIn(a, b, 0, BigBase ^ (Len(a) - Len(b) + 1))

\* a / b rounded to the nearest integer, ties up (a >= 0, b > 0)
BigRound(a, b) == BigQuot(BigAdd(BigAdd(a, a), b), BigAdd(b, b))

\* x * y / z rounded to the nearest integer, ties away from zero (y, z > 0)
MulDivRound(x, y, z) ==
    IF x >= 0 THEN BigRound(BigMul(BigOf(x), BigOf(y)), BigOf(z))
    ELSE 0 - BigRound(BigMul(BigOf(0 - x), BigOf(y)), BigOf(z))

----------------------------------------------------------------------------
(* Binary doubles (IEEE 754 binary64), the float of Python.  A finite      *)
(* double is [neg, m, e], standing for (-1)^neg * m * 2^e, with m a wide   *)
(* natural of exactly 53 bits; zero is FloatZero.  Every operation gives   *)
(* the double nearest to the exact result, ties to the even mantissa, as   *)
(* the hardware does for + - * / and as a correctly rounded pow does.      *)
(* Subnormals, infinities and NaN lie outside the amounts and the rates    *)
(* the engine handles.                                                     *)

MantissaBits == 53

\* the number of bits of a limb x
RECURSIVE LimbBits(_)
LimbBits(x) == IF x = 0 THEN 0 ELSE 1 + LimbBits(x \div 2)

\* the number of bits a limb holds
LimbWidth == LimbBits(BigBase - 1)

\* the number of bits of a
BigBits(a) ==
    IF a = <<>> THEN 0 ELSE LimbWidth * (Len(a) - 1) + LimbBits(a[Len(a)])

\* a * 2^k
BigShl(a, k) ==
    IF a = <<>> THEN <<>>
    ELSE [i \in 1..(k \div LimbWidth) |-> 0] \o BigMulLimb(a, 2 ^ (k % LimbWidth), 0)

\* the limbs a[1..i] under the remainder r so far, divided by the limb d
RECURSIVE BigDivLimbFrom(_, _, _, _)
BigDivLimbFrom(a, d, i, r) ==
    IF i = 0 THEN [q |-> <<>>, r |-> BigOf(r)]
    ELSE The({ [q |-> rest.q \o <<(r * BigBase + a[i]) \div d>>, r |-> rest.r] :
               rest \in { BigDivLimbFrom(a, d, i - 1, (r * BigBase + a[i]) % d) } })

\* floor(a / 2^k)
BigShr(a, k) ==
    IF Len(a) <= k \div LimbWidth THEN <<>>
    ELSE BigNorm(BigDivLimbFrom(SubSeq(a, k \div LimbWidth + 1, Len(a)),
                                2 ^ (k % LimbWidth), Len(a) - k \div LimbWidth, 0).q)

\* the largest limb d in lo..hi with b * d <= x, by bisection
RECURSIVE BigDigitIn(_, _, _, _)
BigDigitIn(x, b, lo, hi) ==
    IF lo = hi THEN lo
    ELSE IF BigLeq(BigMulLimb(b, (lo + hi + 1) \div 2, 0), x)
    THEN BigDigitIn(x, b, (lo + hi + 1) \div 2, hi)
    ELSE BigDigitIn(x, b, lo, (lo + hi + 1) \div 2 - 1)

\* floor(x / b) for x < b * BigBase and the top limb of b at least BigBase / 2:
\* the quotient of the top limbs of x by the top limb of b is that digit or
\* up to two more (Knuth, vol. 2, 4.3.1, theorem B)
BigDigit(x, b) ==
    IF Len(x) < Len(b) THEN 0
    ELSE The({ BigDigitIn(x, b, IF hi < 2 THEN 0 ELSE hi - 2, hi) :
               hi \in { IF est > BigBase - 1 THEN BigBase - 1 ELSE est :
                        est \in { (IF Len(x) > Len(b)
                                   THEN x[Len(b) + 1] * BigBase + x[Len(b)]
                                   ELSE x[Len(b)]) \div b[Len(b)] } } })

\* long division by b at limb i of a: x the remainder so far with limb i
\* brought down, q the quotient limbs so far
RECURSIVE BigDivFrom(_, _, _, _, _)
BigDivFrom(a, b, i, x, q) ==
    The({ IF i = 1 THEN [q |-> <<d>> \o q, r |-> BigSub(x, BigMulLimb(b, d, 0))]
          ELSE BigDivFrom(a, b, i - 1,
                          BigNorm(<<a[i - 1]>> \o BigSub(x, BigMulLimb(b, d, 0))),
                          <<d>> \o q) :
          d \in { BigDigit(x, b) } })

\* the quotient of a by b > 0, and whether the division is exact; a and b
\* are scaled first to bring the top limb of b to BigBase / 2 or more, and
\* the long division starts with the top Len(b) limbs of a
BigDivMod(a, b) ==
    The({ [q |-> BigNorm(qr.q), exact |-> qr.r = <<>>] :
          qr \in { IF Len(b) = 1 THEN BigDivLimbFrom(a, b[1], Len(a), 0)
                   ELSE The({ IF Len(x) < Len(y) THEN [q |-> <<>>, r |-> x]
                              ELSE BigDivFrom(x, y, Len(x) - Len(y) + 1,
                                      BigNorm(SubSeq(x, Len(x) - Len(y) + 1, Len(x))),
                                      <<>>) :
                              x \in { BigShl(a, LimbWidth - LimbBits(b[Len(b)])) },
                              y \in { BigShl(b, LimbWidth - LimbBits(b[Len(b)])) } }) } })

RECURSIVE BigToInt(_)
BigToInt(a) == IF a = <<>> THEN 0 ELSE Head(a) + BigBase * BigToInt(Tail(a))

FloatZero == [neg |-> FALSE, m |-> <<>>, e |-> 0]

\* the double nearest to (-1)^neg * a * 2^e, ties to even
FloatRound(neg, a, e) ==
    LET Pack(m, x) ==
            IF BigBits(m) > MantissaBits
            THEN [neg |-> neg, m |-> BigShr(m, 1), e |-> x + 1]
            ELSE [neg |-> neg, m |-> m, e |-> x]
        \* q the bits kept, r the bits dropped, h half a unit of q
        Nearest(k, q, r, h) ==
            The({ Pack(m, e + k) :
                  m \in { IF (IF r = h THEN q[1] % 2 = 1 ELSE ~BigLeq(r, h))
                          THEN BigAdd(q, <<1>>) ELSE q } })
        Cut(v, k) ==
            The({ The({ Nearest(k, q, r, h) :
                        r \in { BigSub(v, BigShl(q, k)) },
                        h \in { BigShl(<<1>>, k - 1) } }) :
                  q \in { BigShr(v, k) } })
        At(v, k) ==
            IF k <= 0 THEN [neg |-> neg, m |-> BigShl(v, 0 - k), e |-> e + k]
            ELSE Cut(v, k)
    IN  The({ IF v = <<>> THEN FloatZero
              ELSE The({ At(v, k) : k \in { BigBits(v) - MantissaBits } }) :
              v \in { a } })

\* the double nearest to (-1)^neg * (a / b) * 2^e for b > 0: the quotient to
\* 56 bits or more, and one bit more that says whether anything is left
FloatRoundQuot(neg, a, b, e) ==
    LET Sticky(qr, k) ==
            FloatRound(neg, BigMulLimb(qr.q, 2, IF qr.exact THEN 0 ELSE 1), e - k - 1)
        Scaled(u, v, k) ==
            The({ Sticky(qr, k) :
                  qr \in { The({ BigDivMod(w, v) : w \in { BigShl(u, k) } }) } })
    IN  The({ IF u = <<>> THEN FloatZero
              ELSE The({ Scaled(u, v, IF d < 0 THEN 0 ELSE d) :
                         d \in { MantissaBits + 3 + BigBits(v) - BigBits(u) } }) :
              u \in { a }, v \in { b } })

\* the double a decimal literal n / d reads as (n, d integers, d > 0):
\* float("0.1233") is FloatOf(1233, 10000)
FloatOf(n, d) ==
    FloatRoundQuot(n < 0, BigOf(IF n < 0 THEN 0 - n ELSE n), BigOf(d), 0)

\* -x
FloatNeg(x) ==
    The({ IF u.m = <<>> THEN u ELSE [u EXCEPT !.neg = ~u.neg] : u \in { x } })

\* x * y
FloatMul(x, y) ==
    The({ FloatRound(u.neg # v.neg, BigMul(u.m, v.m), u.e + v.e) :
          u \in { x }, v \in { y } })

\* x / y for y # 0
FloatDiv(x, y) ==
    The({ FloatRoundQuot(u.neg # v.neg, u.m, v.m, u.e - v.e) :
          u \in { x }, v \in { y } })

\* x + y
FloatAdd(x, y) ==
    LET Sum(u, v, a, b, e) ==
            FloatRound(IF u.neg = v.neg \/ BigLeq(b, a) THEN u.neg ELSE v.neg,
                       IF u.neg = v.neg THEN BigAdd(a, b)
                       ELSE IF BigLeq(b, a) THEN BigSub(a, b) ELSE BigSub(b, a),
                       e)
        Aligned(u, v, e) ==
            The({ Sum(u, v, a, b, e) :
                  a \in { BigShl(u.m, u.e - e) }, b \in { BigShl(v.m, v.e - e) } })
    IN  The({ IF u.m = <<>> THEN v
              ELSE IF v.m = <<>> THEN u
              ELSE Aligned(u, v, IF u.e < v.e THEN u.e ELSE v.e) :
              u \in { x }, v \in { y } })

\* x - y
FloatSub(x, y) == FloatAdd(x, FloatNeg(y))

\* A C library's pow is not correctly rounded: where the exact power lies
\* close to the midpoint of two doubles it may return the one on the other
\* side (glibc 2.36 stays within 0.51 of a unit in the last place).  The
\* library is allowed the farther double where the exact power lies within
\* 1 / PowMidpointBand of a unit of the midpoint.
PowMidpointBand == 16

\* one of the two doubles next to (-1)^neg * a * 2^e, for a of more than
\* MantissaBits bits: the nearest one (ties to even), or with far the other
\* one where the value lies within the band around their midpoint
FloatRoundNear(neg, a, e, far) ==
    LET Pack(m, x) ==
            IF BigBits(m) > MantissaBits
            THEN [neg |-> neg, m |-> BigShr(m, 1), e |-> x + 1]
            ELSE [neg |-> neg, m |-> m, e |-> x]
        \* q the bits kept, r the bits dropped, h half a unit of q
        Pick(k, q, r, h) ==
            The({ Pack(IF up # (far /\ close) THEN BigAdd(q, <<1>>) ELSE q, e + k) :
                  up \in { IF r = h THEN q[1] % 2 = 1 ELSE ~BigLeq(r, h) },
                  close \in { BigLeq(BigMulLimb(IF BigLeq(r, h) THEN BigSub(h, r)
                                                 ELSE BigSub(r, h),
                                                PowMidpointBand, 0),
                                     BigShl(<<1>>, k)) } })
        Cut(v, k) ==
            The({ The({ Pick(k, q, r, h) :
                        r \in { BigSub(v, BigShl(q, k)) },
                        h \in { BigShl(<<1>>, k - 1) } }) :
                  q \in { BigShr(v, k) } })
    IN  The({ Cut(v, BigBits(v) - MantissaBits) : v \in { a } })

\* x ** (-n) for x > 0 and an integer n >= 0, the C library's pow: the
\* quotient 1 / x^n to 59 bits or more, one bit more that says whether
\* anything is left, and the double the library returns for it
FloatPowNeg(x, n, far) ==
    LET Quot(b, k, e) ==
            The({ FloatRoundNear(FALSE, BigMulLimb(qr.q, 2, IF qr.exact THEN 0 ELSE 1),
                                 e - k - 1, far) :
                  qr \in { The({ BigDivMod(w, b) : w \in { BigShl(<<1>>, k) } }) } })
    IN  The({ The({ Quot(b, MantissaBits + 6 + BigBits(b), 0 - u.e * n) :
                    b \in { BigPow(u.m, n) } }) :
              u \in { x } })

\* x < y
FloatLess(x, y) ==
    LET Below(p, q) == \* |p| < |q|
            IF q.m = <<>> THEN FALSE
            ELSE IF p.m = <<>> THEN TRUE
            ELSE IF p.e # q.e THEN p.e < q.e
            ELSE p.m # q.m /\ BigLeq(p.m, q.m)
    IN  The({ IF u.neg # v.neg THEN u.neg
              ELSE IF u.neg THEN Below(v, u)
              ELSE Below(u, v) :
              u \in { x }, v \in { y } })

\* floor(|x| * scale) for a limb scale
FloatFloor(x, scale) ==
    IF x.e >= 0 THEN BigShl(BigMulLimb(x.m, scale, 0), x.e)
    ELSE BigShr(BigMulLimb(x.m, scale, 0), 0 - x.e)

\* Decimal(str(x)).quantize(Decimal(1) / scale, ROUND_HALF_UP), in units of
\* 1 / scale.  str(x) is the shortest decimal that reads back as x, so it is
\* at or above the tie (2c + 1) / (2 scale) exactly when x is at or above
\* the double nearest to the tie: when the tie lies below the midpoint of x
\* and the next double, or on it with the mantissa of x even.
FloatQuantize(x, scale) ==
    LET Up(u, c, tie, mid) ==
            The({ IF u.neg THEN 0 - mag ELSE mag :
                  mag \in { BigToInt(c)
                            + (IF (IF tie = mid THEN u.m[1] % 2 = 0
                                   ELSE BigLeq(tie, mid))
                               THEN 1 ELSE 0) } })
        Ties(u, c) ==
            The({ Up(u, c, tie, mid) :
                  tie \in { BigShl(BigMulLimb(c, 2, 1), IF u.e < 1 THEN 1 - u.e ELSE 0) },
                  mid \in { BigShl(BigMulLimb(BigMulLimb(u.m, 2, 1), 2 * scale, 0),
                                   IF u.e > 1 THEN u.e - 1 ELSE 0) } })
    IN  The({ IF u.m = <<>> THEN 0
              ELSE The({ Ties(u, c) : c \in { FloatFloor(u, scale) } }) :
              u \in { x } })

----------------------------------------------------------------------------
(* src/src/utils/amortization.py                                           *)

\* _q2(x), lines 10-12, in cents
Q2F(x) == FloatQuantize(x, 100)

\* _q2 of the decimal a number of mills writes: cents, half away from zero
\* (Decimal's ROUND_HALF_UP); str of the double nearest to a decimal of
\* three places is that decimal
Q2(xMills) ==
    IF xMills >= 0 THEN (xMills + 5) \div 10
    ELSE 0 - ((5 - xMills) \div 10)

\* the double of an amount of whole cents: float(Decimal) at the end of _q2
\* and fmt
FloatCents(c) == FloatOf(c, 100)

\* the double of an integer
FloatInt(n) == FloatRound(n < 0, BigOf(IF n < 0 THEN 0 - n ELSE n), 0)

\* r_m = float(annual_rate_frac) / 12.0, line 36, for a rate in 1/10000
MonthlyRate(rate) == FloatDiv(FloatOf(rate, 10000), FloatInt(12))

\* P * r_m / (1.0 - (1.0 + r_m) ** (-n)), line 44 (and line 141 of
\* loan_engine.py); far says which double the library's pow returned
Annuity(p, r_m, n, far) ==
    The({ FloatDiv(FloatMul(p, r_m), FloatSub(FloatInt(1), power)) :
          power \in { FloatPowNeg(FloatAdd(FloatInt(1), r_m), n, far) } })

\* the level payment, lines 41-47, in cents: P mills, rate in 1/10000, n > 0
LevelPayment(P, rate, n, far) ==
    The({ The({ Q2F(payment) :
                payment \in { IF r_m = FloatZero
                              THEN FloatDiv(FloatOf(P, 1000), FloatInt(n))
                              ELSE Annuity(FloatOf(P, 1000), r_m, n, far) } }) :
          r_m \in { MonthlyRate(rate) } })

\* the final row pays the level payment like every other row
PayThisNoFix(m, n, payment, principal, interest) == payment
\* pay_this, lines 57-61
PayThis(m, n, payment, principal, interest) ==
    IF m = n THEN Q2F(FloatAdd(FloatCents(principal), FloatCents(interest)))
    ELSE payment

\* the final row repays the level share like every other row
PrincipalNoFix(m, n, opening, payment, interest) ==
    Q2F(FloatSub(FloatCents(payment), FloatCents(interest)))
\* principal, lines 54-58: opening is the balance in mills
Principal(m, n, opening, payment, interest) ==
    IF m = n THEN Q2F(FloatOf(opening, 1000))
    ELSE Q2F(FloatSub(FloatCents(payment), FloatCents(interest)))

\* the reported opening balance is the truncated balance
OpeningReportedTrunc(opening) == opening \div 10
\* "opening_balance": _q2(opening), line 67: opening is the balance in mills
OpeningReported(opening) == Q2F(FloatOf(opening, 1000))

\* one pass of the loop, lines 52-73: the row of month m for the balance
\* bal (mills) the previous pass left
ScheduleRow(bal, payment, rate, m, n) ==
    LET Row(opening, interest, principal) ==
            [month |-> m,
             opening_balance |-> OpeningReported(bal),
             payment |-> PayThis(m, n, payment, principal, interest),
             interest |-> interest,
             principal |-> principal,
             ending_balance |-> Q2F(FloatSub(opening, FloatCents(principal)))]
        Split(opening, interest) ==
            The({ Row(opening, interest, principal) :
                  principal \in { Principal(m, n, bal, payment, interest) } })
    IN  The({ The({ Split(opening, interest) :
                    interest \in { Q2F(FloatMul(opening, MonthlyRate(rate))) } }) :
              opening \in { FloatOf(bal, 1000) } })

\* the loop stops before the last month
RECURSIVE ScheduleRowsShort(_, _, _, _, _)
ScheduleRowsShort(bal, payment, rate, m, n) ==
    IF m >= n THEN <<>>
    ELSE The({ <<row>> \o ScheduleRowsShort(10 * row.ending_balance, payment, rate,
                                            m + 1, n) :
               row \in { ScheduleRow(bal, payment, rate, m, n) } })
\* the loop of lines 51-73 from month m on
RECURSIVE ScheduleRows(_, _, _, _, _)
ScheduleRows(bal, payment, rate, m, n) ==
    IF m > n THEN <<>>
    ELSE The({ <<row>> \o ScheduleRows(10 * row.ending_balance, payment, rate,
                                       m + 1, n) :
               row \in { ScheduleRow(bal, payment, rate, m, n) } })

\* amortization_schedule(principal_usd, annual_rate_frac, months), lines 15-75:
\* P mills, rate in 1/10000, far the outcome of the library's pow
amortization_schedule(P, rate, n, far) ==
    IF n <= 0 \/ P <= 0 THEN [payment |-> 0, schedule |-> <<>>]
    ELSE The({ [payment |-> payment,
                schedule |-> ScheduleRows(P, payment, rate, 1, n)] :
               payment \in { LevelPayment(P, rate, n, far) } })

----------------------------------------------------------------------------
(* Python values as the engine meets them in a metrics bundle or a request *)
(* field: None (also a key that is absent, since every read is a .get),    *)
(* a number, a string.                                                     *)

PyNone == [t |-> "None", v |-> 0]
PyNum(x) == [t |-> "num", v |-> x]
\* a non-empty string that float() rejects
PyText == [t |-> "str", v |-> 0]

\* Python truthiness: None and 0 are false, a non-empty string is true
Truthy(x) == x.t = "str" \/ (x.t = "num" /\ x.v # 0)

\* a or b
PyOr(a, b) == IF Truthy(a) THEN a ELSE b

\* raised exceptions are values of the model: [raised |-> <exception class>]
Raise(e) == [raised |-> e]
IsRaised(x) == "raised" \in DOMAIN x

----------------------------------------------------------------------------
(* src/src/domain/risk_tiers.py                                            *)

\* RISK_TIERS, lines 5-10: ltv in 1/100, risk_premium in 1/10000
RISK_TIERS ==
    [t \in {"Tier 1", "Tier 1.5", "Tier 2", "Tier 3"} |->
        CASE t = "Tier 1"   -> [ltv |-> 72, risk_premium |-> 500]
          [] t = "Tier 1.5" -> [ltv |-> 65, risk_premium |-> 1000]
          [] t = "Tier 2"   -> [ltv |-> 60, risk_premium |-> 1500]
          [] t = "Tier 3"   -> [ltv |-> 55, risk_premium |-> 2500]]

\* tier_info, lines 12-15, reading the table the process holds
tier_info_in(table, tier) ==
    IF tier \notin DOMAIN table THEN Raise("ValueError") ELSE table[tier]

\* tier_info with the table as the module loaded it
tier_info(tier) == tier_info_in(RISK_TIERS, tier)

----------------------------------------------------------------------------
(* src/src/services/loan_engine.py                                         *)

\* BASE_RATE = 0.0633, line 9, in 1/10000
BASE_RATE == 633

\* the digits after the cents are cut off
fmt_trunc(x) ==
    IF x.neg THEN 0 - BigToInt(FloatFloor(x, 100)) ELSE BigToInt(FloatFloor(x, 100))
\* fmt(x), lines 12-17, in cents: the same rounding as _q2
fmt(x) == FloatQuantize(x, 100)

\* _get_pct_change_30d, lines 20-36: a number (1/100 percent) or None
get_pct_change_30d(metrics) ==
    LET v == PyOr(PyOr(metrics.pct_change_30d, metrics.pct_change_30),
                  metrics.change_30d)
    IN  IF v.t = "num" THEN v ELSE PyNone

\* the thresholds belong to the band below them
volatility_premium_inclusive(metrics) ==
    LET ch30 == get_pct_change_30d(metrics)
        mag == IF ch30.v < 0 THEN 0 - ch30.v ELSE ch30.v
    IN  IF ch30 = PyNone THEN 100
        ELSE IF mag <= 1000 THEN 100
        ELSE IF mag <= 2000 THEN 150
        ELSE 200
\* volatility_premium_from_metrics, lines 39-55, in 1/10000
volatility_premium_from_metrics(metrics) ==
    LET ch30 == get_pct_change_30d(metrics)
        mag == IF ch30.v < 0 THEN 0 - ch30.v ELSE ch30.v
    IN  IF ch30 = PyNone THEN 100
        ELSE IF mag < 1000 THEN 100
        ELSE IF mag < 2000 THEN 150
        ELSE 200

\* the total leaves the volatility premium out
interest_components_without_vol(tier, metrics) ==
    LET info == tier_info(tier)
        vol == volatility_premium_from_metrics(metrics)
    IN  IF IsRaised(info) THEN info
        ELSE [base_rate |-> BASE_RATE, risk_premium |-> info.risk_premium,
              volatility_premium |-> vol,
              interest_rate |-> BASE_RATE + info.risk_premium]
\* interest_components_for_asset, lines 58-78, or the ValueError of tier_info
\* (line 66); the sums have four decimals, which fmt(., "0.0001") leaves as
\* they are
interest_components_in(table, tier, metrics) ==
    LET info == tier_info_in(table, tier)
        base == BASE_RATE
        risk == info.risk_premium
        vol == volatility_premium_from_metrics(metrics)
        total == base + risk + vol
    IN  IF IsRaised(info) THEN info
        ELSE [base_rate |-> base, risk_premium |-> risk,
              volatility_premium |-> vol, interest_rate |-> total]

\* interest_components_for_asset with the table as the module loaded it
interest_components_for_asset(tier, metrics) ==
    interest_components_in(RISK_TIERS, tier, metrics)

\* the tier is looked up after the row is built, with the default's values
per_asset_breakdown_lenient(alloc_usd, tier, metrics, symbol) ==
    LET info == IF tier \notin DOMAIN RISK_TIERS THEN RISK_TIERS["Tier 2"]
                ELSE RISK_TIERS[tier]
        vol == volatility_premium_from_metrics(metrics)
    IN  [symbol |-> symbol, tier |-> tier, ltv |-> info.ltv,
         base_rate |-> BASE_RATE, risk_premium |-> info.risk_premium,
         volatility_premium |-> vol,
         interest_rate |-> BASE_RATE + info.risk_premium + vol,
         collateral_usd |-> fmt(FloatOf(alloc_usd, 1000)),
         loan_usd |-> fmt(FloatMul(FloatOf(alloc_usd, 1000), FloatOf(info.ltv, 100))),
         pct_change_30d |-> get_pct_change_30d(metrics)]
\* per_asset_breakdown, lines 81-107: alloc_usd in mills; the row, or the
\* ValueError of tier_info (line 87) for a tier outside the table
per_asset_breakdown_in(table, alloc_usd, tier, metrics, symbol) ==
    IF IsRaised(tier_info_in(table, tier)) THEN tier_info_in(table, tier)
    ELSE LET ltv == tier_info_in(table, tier).ltv
             ic == interest_components_in(table, tier, metrics)
         IN  [symbol |-> symbol, tier |-> tier, ltv |-> ltv,
              base_rate |-> ic.base_rate,
              risk_premium |-> ic.risk_premium,
              volatility_premium |-> ic.volatility_premium,
              interest_rate |-> ic.interest_rate,
              collateral_usd |-> fmt(FloatOf(alloc_usd, 1000)),
              loan_usd |-> fmt(FloatMul(FloatOf(alloc_usd, 1000), FloatOf(ltv, 100))),
              pct_change_30d |-> get_pct_change_30d(metrics)]

\* per_asset_breakdown with the table as the module loaded it
per_asset_breakdown(alloc_usd, tier, metrics, symbol) ==
    per_asset_breakdown_in(RISK_TIERS, alloc_usd, tier, metrics, symbol)

\* the sum leaves the first row out
RECURSIVE FloatSumOverButFirst(_, _, _)
FloatSumOverButFirst(rows, field, acc) ==
    IF rows = <<>> THEN acc
    ELSE IF Len(rows) = 1 THEN acc
    ELSE FloatSumOverButFirst(Tail(rows), field,
                              FloatAdd(acc, FloatCents(rows[2][field])))
\* sum(r[field] for r in rows), lines 117-118: the doubles of the cent
\* values added one by one from the left, onto acc
RECURSIVE FloatSumOver(_, _, _)
FloatSumOver(rows, field, acc) ==
    IF rows = <<>> THEN acc
    ELSE FloatSumOver(Tail(rows), field, FloatAdd(acc, FloatCents(Head(rows)[field])))

\* weighted_ir, lines 124-127: the loop over the rows, onto acc
RECURSIVE WeightedRate(_, _, _)
WeightedRate(rows, total_loan, acc) ==
    IF rows = <<>> THEN acc
    ELSE WeightedRate(Tail(rows), total_loan,
            FloatAdd(acc,
                     FloatMul(FloatOf(Head(rows).interest_rate, 10000),
                              IF total_loan = FloatZero THEN FloatZero
                              ELSE FloatDiv(FloatCents(Head(rows).loan_usd),
                                            total_loan))))

\* the liquidation LTV is 1.2 times the weighted LTV, without the cap
LiquidationLtvUncapped(weighted_ltv) == FloatMul(weighted_ltv, FloatOf(12, 10))
\* liquidation_ltv = min(weighted_ltv * 1.2, 0.95), line 130: min keeps its
\* first argument unless the second is less
LiquidationLtv(weighted_ltv) ==
    The({ IF FloatLess(FloatOf(95, 100), scaled) THEN FloatOf(95, 100) ELSE scaled :
          scaled \in { FloatMul(weighted_ltv, FloatOf(12, 10)) } })

\* the provisional EMI, lines 136-145: P = float(total_loan),
\* r_month = weighted_ir / 12.0
ProvisionalEmi(total_loan, weighted_ir, n, far) ==
    IF n <= 0 THEN FloatZero
    ELSE The({ IF FloatLess(FloatZero, r_month) THEN Annuity(total_loan, r_month, n, far)
               ELSE FloatDiv(total_loan, FloatInt(n)) :
               r_month \in { FloatDiv(weighted_ir, FloatInt(12)) } })

\* portfolio_aggregate(rows, months), lines 110-156: money in cents, the
\* percent outputs in 1/100 percent, far the outcome of the library's pow
portfolio_aggregate(rows, months, far) ==
    LET Summary(total_collateral, total_loan, weighted_ltv, liquidation_ltv,
                weighted_ir) ==
            [total_collateral |-> fmt(total_collateral),
             total_loan |-> fmt(total_loan),
             portfolio_ltv |-> fmt(FloatMul(weighted_ltv, FloatInt(100))),
             liquidation_ltv |-> fmt(FloatMul(liquidation_ltv, FloatInt(100))),
             \* margin_call_pct, line 133
             margin_call_ltv |->
                fmt(FloatDiv(FloatAdd(FloatMul(weighted_ltv, FloatInt(100)),
                                      FloatMul(liquidation_ltv, FloatInt(100))),
                             FloatInt(2))),
             interest_rate |-> fmt(FloatMul(weighted_ir, FloatInt(100))),
             monthly_emi |-> fmt(ProvisionalEmi(total_loan, weighted_ir, months, far)),
             months |-> months]
        Weighted(total_collateral, total_loan, weighted_ltv) ==
            The({ Summary(total_collateral, total_loan, weighted_ltv,
                          liquidation_ltv, weighted_ir) :
                  liquidation_ltv \in { LiquidationLtv(weighted_ltv) },
                  weighted_ir \in { WeightedRate(rows, total_loan, FloatZero) } })
        Totals(total_collateral, total_loan) ==
            The({ Weighted(total_collateral, total_loan, weighted_ltv) :
                  weighted_ltv \in { IF total_collateral = FloatZero THEN FloatZero
                                     ELSE FloatDiv(total_loan, total_collateral) } })
    IN  The({ Totals(total_collateral, total_loan) :
              total_collateral \in { FloatSumOver(rows, "collateral_usd", FloatZero) },
              total_loan \in { FloatSumOver(rows, "loan_usd", FloatZero) } })

----------------------------------------------------------------------------
(* Python dicts: the sequence of <<key, value>> pairs in insertion order   *)

DictKeys(d) == { d[i][1] : i \in 1..Len(d) }

\* d[k] = v: a key already there keeps its place and takes the new value
DictPut(d, k, v) ==
    IF k \in DictKeys(d)
    THEN [i \in 1..Len(d) |-> IF d[i][1] = k THEN <<k, v>> ELSE d[i]]
    ELSE Append(d, <<k, v>>)

\* r[k] = v on a dict with string keys, held as a record
RecPut(r, k, v) ==
    IF k \in DOMAIN r THEN [r EXCEPT ![k] = v]
    ELSE [x \in DOMAIN r \cup {k} |-> IF x = k THEN v ELSE r[x]]

\* the dict r without the key k
RecDrop(r, k) == [x \in DOMAIN r \ {k} |-> r[x]]

\* sum(d.values())
RECURSIVE DictSum(_)
DictSum(d) == IF d = <<>> THEN 0 ELSE Head(d)[2] + DictSum(Tail(d))

----------------------------------------------------------------------------
(* src/src/utils/amortization.py, sum_schedules                            *)

\* only the first schedule counts
SumRowOfFirst(d, i, field) == IF d = <<>> THEN 0 ELSE Head(d)[2][i][field]
\* sum over the schedules of row i's field
RECURSIVE SumRow(_, _, _)
SumRow(d, i, field) ==
    IF d = <<>> THEN 0 ELSE Head(d)[2][i][field] + SumRow(Tail(d), i, field)

\* sum_schedules(per_asset), lines 78-112: [value |-> the summed rows], or
\* the IndexError of sch[i], line 95, for a schedule shorter than the first
\* one, which sets the number of rows
sum_schedules(per_asset) ==
    IF per_asset = <<>> THEN [value |-> <<>>]
    ELSE LET ref == per_asset[1][2]
             n == Len(ref)
         IN  IF \E k \in 1..Len(per_asset) : Len(per_asset[k][2]) < n
             THEN Raise("IndexError")
             ELSE [value |-> [i \in 1..n |->
                    [month |-> ref[i].month,
                     opening_balance |-> SumRow(per_asset, i, "opening_balance"),
                     payment |-> SumRow(per_asset, i, "payment"),
                     interest |-> SumRow(per_asset, i, "interest"),
                     principal |-> SumRow(per_asset, i, "principal"),
                     ending_balance |-> SumRow(per_asset, i, "ending_balance")]]]

----------------------------------------------------------------------------
(* src/src/services/loan_engine.py, attach_amortization                    *)

\* the loop of lines 184-191 over the assets from position i on:
\* [sched, payment], the two dicts keyed by symbol.  fars holds the rates
\* for which the library's pow returned the farther double: one process
\* returns the same power for the same rate and term
RECURSIVE PerAsset(_, _, _, _, _)
PerAsset(assets, months, i, acc, fars) ==
    IF i > Len(assets) THEN acc
    ELSE The({ PerAsset(assets, months, i + 1,
                        [sched |-> DictPut(acc.sched, assets[i].symbol, sched.schedule),
                         payment |-> DictPut(acc.payment, assets[i].symbol,
                                             sched.payment)],
                        fars) :
               sched \in { amortization_schedule(10 * assets[i].loan_usd,
                                                 assets[i].interest_rate, months,
                                                 assets[i].interest_rate \in fars) } })

\* monthly_emi, lines 197-198
EmiOfPayments(out, payments) == DictSum(payments)

\* the call also writes the term into each asset row of the profile
AttachSchedulesMarking(out, per) ==
    LET portfolio_sched == sum_schedules(per.sched)
    IN  IF IsRaised(portfolio_sched) THEN portfolio_sched
        ELSE RecPut([out EXCEPT
                       !.assets = [i \in 1..Len(out.assets) |->
                                     RecPut(out.assets[i], "months",
                                            Len(portfolio_sched.value))],
                       !.summary = RecPut(@, "monthly_emi",
                                          EmiOfPayments(out, per.payment))],
                    "schedule",
                    [portfolio |-> portfolio_sched.value,
                     assets |-> per.sched,
                     payments |-> per.payment])
\* lines 193-205: the IndexError of sum_schedules, or the dict out after the
\* two assignments of lines 198 and 200, which leave its other keys (the
\* list of asset rows among them) as they are
AttachSchedules(out, per) ==
    LET portfolio_sched == sum_schedules(per.sched)
    IN  IF IsRaised(portfolio_sched) THEN portfolio_sched
        ELSE RecPut([out EXCEPT
                       !.summary = RecPut(@, "monthly_emi",
                                          EmiOfPayments(out, per.payment))],
                    "schedule",
                    [portfolio |-> portfolio_sched.value,
                     assets |-> per.sched,
                     payments |-> per.payment])

\* months = int(out["summary"].get("months", 0)), line 175
AttachMonths(out) ==
    IF "months" \in DOMAIN out.summary THEN out.summary.months ELSE 0

\* lines 176-179: the dict out after the two assignments for months <= 0
AttachNothing(out) ==
    RecPut([out EXCEPT !.summary = RecPut(@, "monthly_emi", 0)],
           "schedule", [portfolio |-> <<>>, assets |-> <<>>, payments |-> <<>>])

\* the rates of the asset rows
RatesOf(assets) == { assets[i].interest_rate : i \in 1..Len(assets) }

\* attach_amortization(out), lines 161-205: what the dict out holds when the
\* call returns (the call writes into the dict it was given and returns it),
\* or the error raised; the dicts of the loop are built once and handed on
attach_amortization(out, fars) ==
    IF ~({"assets", "summary"} \subseteq DOMAIN out) THEN out
    ELSE IF AttachMonths(out) <= 0 THEN AttachNothing(out)
    ELSE The({ AttachSchedules(out, per) :
               per \in { PerAsset(out.assets, AttachMonths(out), 1,
                                  [sched |-> <<>>, payment |-> <<>>], fars) } })

----------------------------------------------------------------------------
(* Calls of amortization_schedule on its own.                              *)

\* the longest term drawn
MaxMonths == 6

\* principal_usd in mills: zero, cents-valued amounts from one cent to the
\* 180,000.00 of the 250,000 Tier 1 scenario, and amounts with a third decimal
PrincipalSet ==
    {-100000, 0, 10, 90, 1000, 100000, 180000000, 4, 2674, 100004, 100006}

\* principal_usd in mills, half a cent above a cent.  With such a principal
\* the first row's opening - principal is an exact tie, which the double
\* misses to either side when a level row precedes the final row.
HalfCentSet == {5, 15, 2675, 100005}

\* cents-valued principal_usd in mills whose level payment or first interest
\* is an exact tie that the double falls under: 0.15 over 6 months without
\* interest (0.025), 0.50 and 1,000.00 for one month at 12% and 12.33%
\* (0.505, 1,010.275), 3,000.00 at 13.33% (interest 33.325); and 542,495.87,
\* whose level payment at 22.83% over 3 months is 187,755.83 or 187,755.84
\* with the double the library's pow returns
TieSet == {150, 500, 1000000, 3000000, 542495870}

\* annual_rate_frac in 1/10000: zero, 12%, and rates the tier table yields
RateSet == {0, 1200, 1233, 1333, 1783, 2283, 3333}

AmortArgs ==
    { [P |-> P, rate |-> r, n |-> n] :
        P \in PrincipalSet \cup HalfCentSet \cup TieSet, r \in RateSet,
        n \in -1..MaxMonths }

InitAmort ==
    /\ HandlerIdle
    /\ risk_tiers = RISK_TIERS
    /\ arg \in AmortArgs
    /\ ret = NoValue
    /\ fpc = "call"

CallAmortization ==
    /\ fpc = "call"
    /\ \E far \in BOOLEAN :
          ret' = amortization_schedule(arg.P, arg.rate, arg.n, far)
    /\ fpc' = "ret"
    /\ UNCHANGED <<arg, hvars, risk_tiers>>

NextAmort == CallAmortization

SpecAmort == InitAmort /\ [][NextAmort]_vars

LastRow(sched) == sched[Len(sched)]

\* C20: amortization_schedule returns payment 0 and an empty schedule when
\* months <= 0 or principal_usd <= 0; otherwise it returns months rows whose
\* month fields are 1, 2, ..., months in order.
C20_RowsPerMonth ==
    fpc = "ret" =>
        IF arg.n <= 0 \/ arg.P <= 0
        THEN ret.payment = 0 /\ ret.schedule = <<>>
        ELSE /\ Len(ret.schedule) = arg.n
             /\ \A i \in 1..arg.n : ret.schedule[i].month = i

\* the 6 rows of the schedule of 180,000.00 at 12.33% were returned
C20_Witness ==
    /\ fpc = "ret"
    /\ arg.P = 180000000 /\ arg.rate = 1233 /\ arg.n = 6
    /\ Len(ret.schedule) = 6
    /\ ret.schedule[6].month = 6
    /\ ret.payment > 0

\* C1 (as claimed): every schedule for months > 0 and principal_usd > 0 ends
\* with ending_balance exactly 0.00 in its last row.
C1_FinalBalanceZero ==
    (fpc = "ret" /\ arg.n > 0 /\ arg.P > 0)
        => /\ Len(ret.schedule) > 0
           /\ LastRow(ret.schedule).ending_balance = 0

\* C2 (as claimed): the first row's opening_balance equals principal_usd, and
\* each next row opens with the balance the row before it ended with.
C2_OpeningIsPrincipal ==
    (fpc = "ret" /\ Len(ret.schedule) > 0)
        => /\ 10 * ret.schedule[1].opening_balance = arg.P
           /\ \A i \in 1..(Len(ret.schedule) - 1) :
                ret.schedule[i + 1].opening_balance = ret.schedule[i].ending_balance

\* C2 (amended): the first row's opening_balance equals principal_usd rounded
\* half-up to cents (principal_usd itself when it is cents-valued), and each
\* next row opens with the balance the row before it ended with.
C2_OpeningChain ==
    (fpc = "ret" /\ Len(ret.schedule) > 0)
        => /\ 10 * ret.schedule[1].opening_balance - arg.P \in -4..5
           /\ \A i \in 1..(Len(ret.schedule) - 1) :
                ret.schedule[i + 1].opening_balance = ret.schedule[i].ending_balance

\* a schedule of several rows for a principal with a third decimal
C2_Witness ==
    /\ fpc = "ret"
    /\ Len(ret.schedule) >= 3
    /\ arg.P % 10 # 0
    /\ ret.schedule[2].opening_balance > 0

\* C3: in every row, level-payment rows and the corrected final row alike,
\* payment equals interest + principal (in cents).
C3_PaymentSplits ==
    fpc = "ret" =>
        \A i \in 1..Len(ret.schedule) :
            ret.schedule[i].payment =
                ret.schedule[i].interest + ret.schedule[i].principal

\* a schedule whose corrected final row pays another amount than the level payment
C3_Witness ==
    /\ fpc = "ret"
    /\ Len(ret.schedule) >= 2
    /\ ret.schedule[1].payment = ret.payment
    /\ ret.schedule[1].interest > 0
    /\ LastRow(ret.schedule).payment # ret.payment

\* C26 (as claimed): for principal_usd > 0, months > 0 and a non-negative
\* rate, every row has opening_balance >= 0, ending_balance >= 0,
\* principal >= 0 and payment >= 0, so the balance never increases from one
\* month to the next.
C26_NothingNegative ==
    (fpc = "ret" /\ arg.P > 0 /\ arg.n > 0 /\ arg.rate >= 0) =>
        \A i \in 1..Len(ret.schedule) :
            /\ ret.schedule[i].opening_balance >= 0
            /\ ret.schedule[i].ending_balance >= 0
            /\ ret.schedule[i].principal >= 0
            /\ ret.schedule[i].payment >= 0
            /\ ret.schedule[i].ending_balance <= ret.schedule[i].opening_balance

\* the principal components of rows 1..k of a schedule, in cents
RECURSIVE PrincipalPaid(_, _)
PrincipalPaid(sched, k) ==
    IF k = 0 THEN 0 ELSE PrincipalPaid(sched, k - 1) + sched[k].principal

\* C27: for a cents-valued principal_usd > 0 and months > 0, the principal
\* components of all rows of the schedule sum to exactly principal_usd.
C27_PrincipalRepaidInFull ==
    (fpc = "ret" /\ arg.P > 0 /\ arg.P % 10 = 0 /\ arg.n > 0) =>
        10 * PrincipalPaid(ret.schedule, Len(ret.schedule)) = arg.P

\* the schedule of 180,000.00 at 12.33% over 6 months was returned: its level
\* rows leave a balance that the final row repays with another amount
C27_Witness ==
    /\ fpc = "ret"
    /\ arg.P = 180000000 /\ arg.rate = 1233 /\ arg.n = 6
    /\ PrincipalPaid(ret.schedule, 6) = 18000000
    /\ PrincipalPaid(ret.schedule, 5) < 18000000
    /\ ret.schedule[6].principal # ret.payment - ret.schedule[6].interest

----------------------------------------------------------------------------
(* Calls of tier_info and per_asset_breakdown on their own.                *)

\* allocation_usd in mills: a tenth of a cent, six and seven tenths of a
\* cent, 0.70, whose loan at Tier 1.5 is the tie 0.455, 100.00, 1,234.56 and
\* the 250,000.00 of the scenarios
AllocSet == {1, 6, 7, 700, 100000, 1234560, 250000000}

\* the table's names and names outside it
TierArgSet == {"Tier 1", "Tier 1.5", "Tier 2", "Tier 3", "Tier 9", "tier 1", "Tier1"}

NoMetrics == [pct_change_30d |-> PyNone, pct_change_30 |-> PyNone, change_30d |-> PyNone]

\* metrics bundles: none, a 30-day change (1/100 percent) on each side of the
\* thresholds and of either sign, zero, text, and a change under a fallback key
MetricsSet ==
    { [NoMetrics EXCEPT !.pct_change_30d = v] :
        v \in {PyNone, PyNum(999), PyNum(1000), PyNum(-1500), PyNum(2000),
               PyNum(0), PyText, PyNum(-999), PyNum(-1000), PyNum(1999),
               PyNum(-2000)} }
    \cup { [NoMetrics EXCEPT !.change_30d = PyNum(-2500)],
           [NoMetrics EXCEPT !.pct_change_30d = PyNum(0), !.pct_change_30 = PyNum(1200)] }

EngineSymbolSet == {"BTC", "USDT"}

InitPrice ==
    /\ HandlerIdle
    /\ risk_tiers = RISK_TIERS
    /\ arg \in [alloc : AllocSet, tier : TierArgSet, metrics : MetricsSet,
                symbol : EngineSymbolSet]
    /\ ret = NoValue
    /\ fpc = "call"

CallTierInfo ==
    /\ fpc = "call"
    /\ ret' = tier_info(arg.tier)
    /\ fpc' = "ret_tier_info"
    /\ UNCHANGED <<arg, hvars, risk_tiers>>

CallBreakdown ==
    /\ fpc = "call"
    /\ ret' = per_asset_breakdown(arg.alloc, arg.tier, arg.metrics, arg.symbol)
    /\ fpc' = "ret_breakdown"
    /\ UNCHANGED <<arg, hvars, risk_tiers>>

CallVolatilityPremium ==
    /\ fpc = "call"
    /\ ret' = [value |-> volatility_premium_from_metrics(arg.metrics)]
    /\ fpc' = "ret_volatility_premium"
    /\ UNCHANGED <<arg, hvars, risk_tiers>>

CallInterestComponents ==
    /\ fpc = "call"
    /\ ret' = interest_components_for_asset(arg.tier, arg.metrics)
    /\ fpc' = "ret_interest_components"
    /\ UNCHANGED <<arg, hvars, risk_tiers>>

NextPrice ==
    CallTierInfo \/ CallBreakdown \/ CallVolatilityPremium \/ CallInterestComponents

SpecPrice == InitPrice /\ [][NextPrice]_vars

\* C8: for a tier name outside {Tier 1, Tier 1.5, Tier 2, Tier 3}, tier_info
\* raises the unknown-tier error, and per_asset_breakdown raises it too and
\* returns no AssetBreakdown, whatever the allocation, metrics and symbol.
C8_UnknownTierRaises ==
    (fpc \in {"ret_tier_info", "ret_breakdown"}
       /\ arg.tier \notin {"Tier 1", "Tier 1.5", "Tier 2", "Tier 3"})
        => /\ DOMAIN ret = {"raised"}
           /\ ret.raised = "ValueError"

\* per_asset_breakdown was called with Tier 9, a real allocation and metrics
C8_Witness ==
    /\ fpc = "ret_breakdown"
    /\ arg.tier = "Tier 9"
    /\ arg.alloc = 250000000
    /\ arg.metrics.pct_change_30d = PyNum(2000)
    /\ IsRaised(ret)

\* |x|
Abs(x) == IF x < 0 THEN 0 - x ELSE x

\* C11: volatility_premium_from_metrics returns 0.01 for a 30-day change that
\* is missing, unparseable or of magnitude below 10, 0.015 from 10 to below
\* 20, 0.02 from 20 on, whatever the sign: for a bundle that carries the
\* change under pct_change_30d alone, and for every bundle with respect to
\* the change the code resolves from it.
C11_VolatilityPremium ==
    fpc = "ret_volatility_premium" =>
        LET m == arg.metrics
            own == m.pct_change_30d
            used == get_pct_change_30d(m)
            Band(v) == IF v.t # "num" \/ Abs(v.v) < 1000 THEN 100
                       ELSE IF Abs(v.v) < 2000 THEN 150
                       ELSE 200
        IN  /\ ret.value \in {100, 150, 200}
            /\ (m.pct_change_30 = PyNone /\ m.change_30d = PyNone)
                   => ret.value = Band(own)
            /\ ret.value = Band(used)
            /\ own = PyNum(999) => ret.value = 100
            /\ own = PyNum(1000) => ret.value = 150
            /\ own = PyNum(2000) => ret.value = 200

\* the premium of a change of exactly -10 percent was computed
C11_Witness ==
    /\ fpc = "ret_volatility_premium"
    /\ arg.metrics.pct_change_30d = PyNum(-1000)
    /\ ret.value = 150

\* C12: for a table tier and any metrics bundle, interest_components_for_asset
\* returns base_rate 0.0633 and an interest_rate that is the sum of the
\* returned base_rate, risk_premium and volatility_premium (all in 1/10000).
C12_InterestIsSumOfComponents ==
    (fpc = "ret_interest_components" /\ arg.tier \in DOMAIN RISK_TIERS)
        => /\ ret.base_rate = 633
           /\ ret.interest_rate
                = ret.base_rate + ret.risk_premium + ret.volatility_premium

\* the components of a Tier 3 asset that moved 20 percent: 6.33 + 25 + 2
C12_Witness ==
    /\ fpc = "ret_interest_components"
    /\ arg.tier = "Tier 3"
    /\ arg.metrics.pct_change_30d = PyNum(2000)
    /\ ret.interest_rate = 3333
    /\ ret.volatility_premium = 200

\* C15 (as claimed): a breakdown priced from a positive allocation has
\* loan_usd = collateral_usd * ltv rounded half-up to cents, with the
\* collateral_usd and ltv of that breakdown.
C15_LoanIsCollateralTimesLtv ==
    (fpc = "ret_breakdown" /\ ~IsRaised(ret) /\ arg.alloc > 0)
        => ret.loan_usd = MulDivRound(ret.collateral_usd, ret.ltv, 100)

----------------------------------------------------------------------------
(* The engine's pipeline on its own: price each asset, aggregate, attach   *)
(* the amortization.                                                       *)

\* the most assets in a portfolio
MaxAssets == 2

\* the longest term of a portfolio
MaxTerm == 2

\* assets as the pricer receives them: a tenth of a cent (its loan rounds to
\* 0.00) and 100.00, quiet Tier 1 assets and volatile Tier 3 ones
EngineAssetSet ==
    { [symbol |-> sy, alloc |-> al, tier |-> p[1], metrics |-> p[2]] :
        sy \in {"BTC", "ETH"}, al \in {1, 100000},
        p \in { <<"Tier 1", NoMetrics>>,
                <<"Tier 3", [NoMetrics EXCEPT !.pct_change_30d = PyNum(2000)]>> } }

InitEngine ==
    /\ HandlerIdle
    /\ risk_tiers = RISK_TIERS
    /\ arg \in [assets : UNION { [1..k -> EngineAssetSet] : k \in 1..MaxAssets },
                months : 0..MaxTerm]
    /\ ret = [assets |-> <<>>]
    /\ fpc = "price"

\* per_asset_breakdown for the next asset
PriceNext ==
    /\ fpc = "price"
    /\ Len(ret.assets) < Len(arg.assets)
    /\ \E a \in { arg.assets[Len(ret.assets) + 1] } :
       \E row \in { per_asset_breakdown(a.alloc, a.tier, a.metrics, a.symbol) } :
          IF IsRaised(row)
          THEN ret' = row /\ fpc' = "raised"
          ELSE ret' = [assets |-> Append(ret.assets, row)] /\ fpc' = "price"
    /\ UNCHANGED <<arg, hvars, risk_tiers>>

\* portfolio_aggregate over the priced rows
Aggregate ==
    /\ fpc = "price"
    /\ Len(ret.assets) = Len(arg.assets)
    /\ \E far \in BOOLEAN :
          ret' = [assets |-> ret.assets,
                  summary |-> portfolio_aggregate(ret.assets, arg.months, far)]
    /\ fpc' = "attach"
    /\ UNCHANGED <<arg, hvars, risk_tiers>>

\* attach_amortization on the profile
Attach ==
    /\ fpc = "attach"
    /\ \E fars \in SUBSET RatesOf(ret.assets) :
       \E out \in { attach_amortization(ret, fars) } :
          /\ ret' = out
          /\ fpc' = IF IsRaised(out) THEN "raised" ELSE "done"
    /\ UNCHANGED <<arg, hvars, risk_tiers>>

\* attach_amortization on a profile whose summary has no "months" key: the
\* read of line 175 falls back to 0 and no schedule is built
AttachBare ==
    /\ fpc = "attach"
    /\ \E out \in { attach_amortization([ret EXCEPT !.summary = RecDrop(@, "months")],
                                         {}) } :
          ret' = out
    /\ fpc' = "bare"
    /\ UNCHANGED <<arg, hvars, risk_tiers>>

NextEngine == PriceNext \/ Aggregate \/ Attach \/ AttachBare

SpecEngine == InitEngine /\ [][NextEngine]_vars

\* the level payments of the schedules of all assets of the profile, summed,
\* with the library's pow returning the farther double for the rates in fars
RECURSIVE LevelPaymentsOf(_, _, _)
LevelPaymentsOf(assets, months, fars) ==
    IF assets = <<>> THEN 0
    ELSE amortization_schedule(10 * Head(assets).loan_usd,
                               Head(assets).interest_rate, months,
                               Head(assets).interest_rate \in fars).payment
         + LevelPaymentsOf(Tail(assets), months, fars)

\* C4 (as claimed): after attach_amortization ran on a profile with months > 0,
\* summary.monthly_emi is the sum of the level payments of the schedules of
\* all assets of the profile.
C4_EmiIsSumOfPayments ==
    (fpc = "done" /\ arg.months > 0)
        => \E fars \in SUBSET RatesOf(ret.assets) :
              ret.summary.monthly_emi = LevelPaymentsOf(ret.assets, arg.months, fars)

\* C23 (as claimed): for every profile with months > 0 whose assets all have
\* a positive loan_usd, schedule.assets and schedule.payments have as many
\* entries as the profile has assets, also when two assets carry the same
\* symbol.
C23_OneSeriesPerAsset ==
    (/\ fpc = "done"
     /\ arg.months > 0
     /\ \A i \in 1..Len(ret.assets) : ret.assets[i].loan_usd > 0)
        => /\ Len(ret.schedule.assets) = Len(ret.assets)
           /\ Len(ret.schedule.payments) = Len(ret.assets)

----------------------------------------------------------------------------
(* sum_schedules on its own, over schedules that amortization_schedule     *)
(* built.                                                                  *)

\* the most schedules summed
MaxSchedules == 3

\* the longest schedule summed
MaxSumMonths == 2

\* schedules of 10.00 and 100.00 at 12% over 0..MaxSumMonths months
SumScheduleSet ==
    { amortization_schedule(P, 1200, n, far).schedule :
        P \in {10000, 100000}, n \in 0..MaxSumMonths, far \in BOOLEAN }

\* the keys of the dict, in insertion order
SumKeys == <<"BTC", "ETH", "SOL", "ADA", "XRP", "DOT">>

InitSum ==
    /\ HandlerIdle
    /\ risk_tiers = RISK_TIERS
    /\ \E k \in 0..MaxSchedules : \E ss \in [1..k -> SumScheduleSet] :
          arg = [per_asset |-> [i \in 1..k |-> <<SumKeys[i], ss[i]>>]]
    /\ ret = NoValue
    /\ fpc = "call"

CallSumSchedules ==
    /\ fpc = "call"
    /\ ret' = sum_schedules(arg.per_asset)
    /\ fpc' = "ret_sum"
    /\ UNCHANGED <<arg, hvars, risk_tiers>>

NextSum == CallSumSchedules

SpecSum == InitSum /\ [][NextSum]_vars

\* the lengths of the schedules of a dict
SchedLens(d) == { Len(d[i][2]) : i \in 1..Len(d) }

\* C18 (as claimed): given schedules that do not all have the same length,
\* sum_schedules fails with an error, whichever of them comes first.
C18_UnequalLengthsFail ==
    (fpc = "ret_sum" /\ Cardinality(SchedLens(arg.per_asset)) > 1)
        => IsRaised(ret)

\* the sum over the schedules of a field of row m, schedule by schedule
FieldTotal(d, m, field) ==
    LET S[i \in 0..Len(d)] == IF i = 0 THEN 0 ELSE S[i - 1] + d[i][2][m][field]
    IN  S[Len(d)]

\* C19: for schedules of one length n, sum_schedules returns n rows, and row
\* m has month m and, in each money field, the sum of that field over row m
\* of all the schedules.
C19_PointwiseSum ==
    (fpc = "ret_sum" /\ arg.per_asset # <<>>
       /\ Cardinality(SchedLens(arg.per_asset)) = 1)
        => /\ ~IsRaised(ret)
           /\ SchedLens(arg.per_asset) = {Len(ret.value)}
           /\ \A m \in 1..Len(ret.value) :
                 /\ ret.value[m].month = m
                 /\ \A f \in {"opening_balance", "payment", "interest",
                               "principal", "ending_balance"} :
                       ret.value[m][f] = FieldTotal(arg.per_asset, m, f)

\* three schedules of two months were summed: two of 100.00 and one of 10.00
C19_Witness ==
    /\ fpc = "ret_sum"
    /\ Len(arg.per_asset) = 3
    /\ SchedLens(arg.per_asset) = {2}
    /\ ~IsRaised(ret)
    /\ Len(ret.value) = 2
    /\ ret.value[1].opening_balance = 21000
    /\ ret.value[2].ending_balance = 0

----------------------------------------------------------------------------
(* portfolio_aggregate on its own, over rows that per_asset_breakdown      *)
(* priced.                                                                 *)

\* the most rows aggregated
MaxRows == 4

\* <<allocation in mills, tier>>: six tenths of a cent, whose collateral
\* rounds to 0.01 and whose loan to 0.00, one cent, whose loan rounds to 0.01,
\* then 100.00 and 250,000.00
AggAssetSet ==
    { <<6, "Tier 1">>, <<10, "Tier 1">>, <<100000, "Tier 3">>,
      <<250000000, "Tier 1">>, <<250000000, "Tier 1.5">> }

AggMonthsSet == {1}

\* the rows of the assets, each priced without metrics
RECURSIVE PriceAll(_)
PriceAll(assets) ==
    IF assets = <<>> THEN <<>>
    ELSE <<per_asset_breakdown(Head(assets)[1], Head(assets)[2], NoMetrics, "BTC")>>
         \o PriceAll(Tail(assets))

InitAggregate ==
    /\ HandlerIdle
    /\ risk_tiers = RISK_TIERS
    /\ arg \in [assets : UNION { [1..k -> AggAssetSet] : k \in 0..MaxRows },
                months : AggMonthsSet]
    /\ ret = NoValue
    /\ fpc = "call"

CallAggregate ==
    /\ fpc = "call"
    /\ \E rs \in { PriceAll(arg.assets) } : \E far \in BOOLEAN :
          ret' = [assets |-> rs, summary |-> portfolio_aggregate(rs, arg.months, far)]
    /\ fpc' = "ret_aggregate"
    /\ UNCHANGED <<arg, hvars, risk_tiers>>

NextAggregate == CallAggregate

SpecAggregate == InitAggregate /\ [][NextAggregate]_vars

\* the sum of a field over the rows, row by row
RowsTotal(rs, field) ==
    LET S[i \in 0..Len(rs)] == IF i = 0 THEN 0 ELSE S[i - 1] + rs[i][field]
    IN  S[Len(rs)]

\* the sum of the allocations, each rounded half-up to cents
AllocCentsTotal(assets) ==
    LET S[i \in 0..Len(assets)] ==
            IF i = 0 THEN 0 ELSE S[i - 1] + Q2(assets[i][1])
    IN  S[Len(assets)]

\* the sum of the allocations, in mills
AllocTotal(assets) ==
    LET S[i \in 0..Len(assets)] ==
            IF i = 0 THEN 0 ELSE S[i - 1] + assets[i][1]
    IN  S[Len(assets)]

\* C13: for a non-empty list of priced rows, total_loan is the sum of the
\* rows' loan_usd, to the cent.
C13_TotalLoanIsSum ==
    (fpc = "ret_aggregate" /\ ret.assets # <<>>)
        => ret.summary.total_loan = RowsTotal(ret.assets, "loan_usd")

\* two 250,000 assets and one of 100 were aggregated
C13_Witness ==
    /\ fpc = "ret_aggregate"
    /\ arg.assets = << <<250000000, "Tier 1">>, <<100000, "Tier 3">>,
                       <<250000000, "Tier 1.5">> >>
    /\ ret.summary.total_loan = 18000000 + 5500 + 16250000

\* C14 (as claimed): for a non-empty list of rows priced from positive
\* allocations with table tiers, total_collateral is the sum of the
\* allocations and total_loan is strictly positive.
C14_CollateralIsSumOfAllocations ==
    (fpc = "ret_aggregate" /\ arg.assets # <<>>)
        => /\ 10 * ret.summary.total_collateral = AllocTotal(arg.assets)
           /\ ret.summary.total_loan > 0

\* C14 (amended): total_collateral is the sum of the allocations each
\* rounded half-up to cents, which is the sum of the allocations when they
\* are whole cents, and total_loan is strictly positive when some allocation
\* is 0.01 or more.
C14_CollateralIsSumOfCents ==
    (fpc = "ret_aggregate" /\ arg.assets # <<>>)
        => /\ ret.summary.total_collateral = AllocCentsTotal(arg.assets)
           /\ (\A i \in 1..Len(arg.assets) : arg.assets[i][1] % 10 = 0)
                 => 10 * ret.summary.total_collateral = AllocTotal(arg.assets)
           /\ (\E i \in 1..Len(arg.assets) : arg.assets[i][1] >= 10)
                 => ret.summary.total_loan > 0

\* four allocations of 250,000 at Tier 1, Tier 1.5, Tier 1, Tier 1 were
\* aggregated to 1,000,000.00 of collateral and 702,500.00 of loan
C14_Witness ==
    /\ fpc = "ret_aggregate"
    /\ arg.assets = << <<250000000, "Tier 1">>, <<250000000, "Tier 1.5">>,
                       <<250000000, "Tier 1">>, <<250000000, "Tier 1">> >>
    /\ ret.summary.total_collateral = 100000000
    /\ ret.summary.total_loan = 70250000

\* C16 (as claimed): in a summary aggregated from priced rows,
\* portfolio_ltv <= margin_call_ltv <= liquidation_ltv.
C16_MarginCallBetween ==
    fpc = "ret_aggregate"
        => /\ ret.summary.portfolio_ltv <= ret.summary.margin_call_ltv
           /\ ret.summary.margin_call_ltv <= ret.summary.liquidation_ltv

\* the smaller of two numbers
Min(a, b) == IF a <= b THEN a ELSE b

\* C17: liquidation_ltv is min(weighted_ltv * 1.2, 0.95) as a percent, with
\* weighted_ltv = total_loan / total_collateral, and 0 when total_collateral
\* is 0: never above 95.00, and 120 percent of the weighted LTV below the cap.
C17_LiquidationLtv ==
    fpc = "ret_aggregate" =>
        LET tc == RowsTotal(ret.assets, "collateral_usd")
            tl == RowsTotal(ret.assets, "loan_usd")
            sm == ret.summary
        IN  /\ sm.liquidation_ltv <= 9500
            /\ tc = 0 => sm.liquidation_ltv = 0 /\ sm.portfolio_ltv = 0
            /\ tc > 0 => /\ sm.liquidation_ltv = Min(MulDivRound(tl, 12000, tc), 9500)
                          /\ sm.portfolio_ltv = MulDivRound(tl, 10000, tc)

\* a summary at the cap was produced: two assets of one cent, whose loans
\* are one cent
C17_Witness ==
    /\ fpc = "ret_aggregate"
    /\ Len(ret.assets) = 2
    /\ ret.summary.total_collateral = 2
    /\ ret.summary.portfolio_ltv = 10000
    /\ ret.summary.liquidation_ltv = 9500

----------------------------------------------------------------------------
(* Two calls of per_asset_breakdown with the same arguments in one         *)
(* process, with other engine calls between them.  The caller keeps the    *)
(* dicts the calls return in its list rows, as loan_calculate does         *)
(* (routes.py, lines 44-45), and hands that list on as the "assets" of     *)
(* the profile (line 50): ret.rows holds those dicts as they are now,      *)
(* ret.first a copy of what the first call returned.                       *)

\* the most engine calls made between the two calls
MaxBetween == 2

\* the arguments of the two calls, and of the per_asset_breakdown calls made
\* between them
RepeatArgSet ==
    [alloc : {6, 100000, 250000000}, tier : {"Tier 1", "Tier 3", "Tier 9"},
     metrics : {NoMetrics, [NoMetrics EXCEPT !.pct_change_30d = PyNum(2000)]},
     symbol : {"BTC"}]

\* the term of the profiles built between the two calls
RepeatMonthsSet == {2}

InitRepeat ==
    /\ HandlerIdle
    /\ risk_tiers = RISK_TIERS
    /\ arg \in RepeatArgSet
    /\ ret = [first |-> NoValue, rows |-> <<>>, between |-> <<>>, other |-> NoValue,
              second |-> NoValue]
    /\ fpc = "first"

\* the caller's list after rows.append(row), or as it was when the call raised
RowsWith(rows, row) == IF IsRaised(row) THEN rows ELSE Append(rows, row)

\* the first call
CallFirst ==
    /\ fpc = "first"
    /\ \E row \in { per_asset_breakdown_in(risk_tiers, arg.alloc, arg.tier,
                                           arg.metrics, arg.symbol) } :
          ret' = [ret EXCEPT !.first = row, !.rows = RowsWith(@, row)]
    /\ fpc' = "between"
    /\ UNCHANGED <<arg, hvars, risk_tiers>>

\* a call of per_asset_breakdown with any arguments
OtherBreakdown ==
    /\ fpc = "between"
    /\ Len(ret.between) < MaxBetween
    /\ \E o \in RepeatArgSet :
       \E row \in { per_asset_breakdown_in(risk_tiers, o.alloc, o.tier, o.metrics,
                                           o.symbol) } :
          ret' = [ret EXCEPT !.between = Append(@, "per_asset_breakdown"),
                             !.other = row,
                             !.rows = RowsWith(@, row)]
    /\ UNCHANGED <<arg, fpc, hvars, risk_tiers>>

\* a call of portfolio_aggregate on the caller's list, which it reads
OtherAggregate ==
    /\ fpc = "between"
    /\ Len(ret.between) < MaxBetween
    /\ \E m \in RepeatMonthsSet : \E far \in BOOLEAN :
          ret' = [ret EXCEPT !.between = Append(@, "portfolio_aggregate"),
                             !.other = portfolio_aggregate(ret.rows, m, far)]
    /\ UNCHANGED <<arg, fpc, hvars, risk_tiers>>

\* a call of attach_amortization on the profile of the caller's list: the
\* call writes into the profile, whose "assets" is that list, so the list
\* holds afterwards what the call left in it.  The library's pow returns
\* the nearest double for every power, or the farther one where it may.
OtherAttach ==
    /\ fpc = "between"
    /\ Len(ret.between) < MaxBetween
    /\ \E m \in RepeatMonthsSet : \E far \in BOOLEAN :
       \E out \in { attach_amortization(
                       [assets |-> ret.rows,
                        summary |-> portfolio_aggregate(ret.rows, m, far)],
                       IF far THEN RatesOf(ret.rows) ELSE {}) } :
          ret' = [ret EXCEPT !.between = Append(@, "attach_amortization"),
                             !.other = out,
                             !.rows = IF IsRaised(out) THEN @ ELSE out.assets]
    /\ UNCHANGED <<arg, fpc, hvars, risk_tiers>>

\* the second call, with the arguments of the first
CallSecond ==
    /\ fpc = "between"
    /\ ret' = [ret EXCEPT !.second =
                 per_asset_breakdown_in(risk_tiers, arg.alloc, arg.tier,
                                        arg.metrics, arg.symbol)]
    /\ fpc' = "done"
    /\ UNCHANGED <<arg, hvars, risk_tiers>>

NextRepeat ==
    CallFirst \/ OtherBreakdown \/ OtherAggregate \/ OtherAttach \/ CallSecond

SpecRepeat == InitRepeat /\ [][NextRepeat]_vars

----------------------------------------------------------------------------
(* Two requests whose pricing, aggregation and amortization one process    *)
(* runs interleaved: per_asset_breakdown and portfolio_aggregate call by   *)
(* call, attach_amortization statement by statement.  arg and fpc hold     *)
(* the two requests and where each stands; ret holds, for each request,    *)
(* the profile built so far (out), the position of the loop of             *)
(* attach_amortization (at) and the outcomes of the library's pow (lib),   *)
(* and the namespaces the names of attach_amortization live in (scope):    *)
(* scope[0] is the module, scope[i] the frame of the call for request i.   *)

\* the most assets of a request
MaxConcAssets == 2

\* assets as the pricer receives them: 100.00 of a volatile Tier 1 asset,
\* and an asset with a tier outside the table
ConcAssetSet ==
    { [symbol |-> "BTC", alloc |-> 100000, tier |-> "Tier 1",
       metrics |-> [NoMetrics EXCEPT !.pct_change_30d = PyNum(2000)]],
      [symbol |-> "SOL", alloc |-> 100000, tier |-> "Tier 9", metrics |-> NoMetrics] }

\* the terms of the requests
ConcMonthsSet == {0, 2}

ConcRequestSet ==
    [assets : UNION { [1..k -> ConcAssetSet] : k \in 1..MaxConcAssets },
     months : ConcMonthsSet]

\* the dicts of the loop are module globals: no frame holds them
AttachLocalsHoisted == {"months"}
\* the names attach_amortization assigns that outlive a statement, lines 175,
\* 182 and 183: Python binds a name a function assigns in the frame of the
\* call
AttachLocals == {"months", "per_asset_sched", "per_asset_payment"}

\* the namespace the call for request i finds a name in
ScopeOf(name, i) == IF name \in AttachLocals THEN i ELSE 0

\* the value of a name in the call for request i
Load(scope, name, i) == scope[ScopeOf(name, i)][name]

\* name = v in the call for request i
Bind(scope, name, i, v) == [scope EXCEPT ![ScopeOf(name, i)] = RecPut(@, name, v)]

InitConcurrent ==
    /\ HandlerIdle
    /\ risk_tiers = RISK_TIERS
    /\ arg \in [1..2 -> ConcRequestSet]
    /\ ret = [out |-> [i \in 1..2 |-> [assets |-> <<>>]],
              at |-> [i \in 1..2 |-> 0],
              lib |-> [i \in 1..2 |-> [far |-> FALSE, fars |-> {}]],
              scope |-> [j \in 0..2 |-> <<>>]]
    /\ fpc = [i \in 1..2 |-> "price"]

\* per_asset_breakdown for the next asset of request i
PriceOf(i) ==
    /\ fpc[i] = "price"
    /\ Len(ret.out[i].assets) < Len(arg[i].assets)
    /\ \E a \in { arg[i].assets[Len(ret.out[i].assets) + 1] } :
       \E row \in { per_asset_breakdown_in(risk_tiers, a.alloc, a.tier, a.metrics,
                                           a.symbol) } :
          IF IsRaised(row)
          THEN /\ ret' = [ret EXCEPT !.out[i] = row]
               /\ fpc' = [fpc EXCEPT ![i] = "raised"]
          ELSE /\ ret' = [ret EXCEPT !.out[i] = [assets |-> Append(@.assets, row)]]
               /\ fpc' = fpc
    /\ UNCHANGED <<arg, hvars, risk_tiers>>

\* portfolio_aggregate over the priced rows of request i
AggregateOf(i) ==
    /\ fpc[i] = "price"
    /\ Len(ret.out[i].assets) = Len(arg[i].assets)
    /\ \E far \in BOOLEAN :
          ret' = [ret EXCEPT
                    !.out[i] = [assets |-> @.assets,
                                summary |-> portfolio_aggregate(@.assets,
                                                                arg[i].months, far)],
                    !.lib[i].far = far]
    /\ fpc' = [fpc EXCEPT ![i] = "attach"]
    /\ UNCHANGED <<arg, hvars, risk_tiers>>

\* attach_amortization on the profile of request i, lines 172-183: the term,
\* and either the empty schedule or the two empty dicts of the loop
AttachBegin(i) ==
    /\ fpc[i] = "attach"
    /\ \E months \in { AttachMonths(ret.out[i]) } :
          IF months <= 0
          THEN /\ ret' = [ret EXCEPT
                            !.out[i] = AttachNothing(@),
                            !.scope = Bind(@, "months", i, months)]
               /\ fpc' = [fpc EXCEPT ![i] = "done"]
          ELSE /\ \E fars \in SUBSET RatesOf(ret.out[i].assets) :
                    ret' = [ret EXCEPT
                              !.scope = Bind(Bind(Bind(@, "months", i, months),
                                                  "per_asset_sched", i, <<>>),
                                             "per_asset_payment", i, <<>>),
                              !.at[i] = 0,
                              !.lib[i].fars = fars]
               /\ fpc' = [fpc EXCEPT ![i] = "loop"]
    /\ UNCHANGED <<arg, hvars, risk_tiers>>

\* one pass of the loop, lines 184-191
AttachAsset(i) ==
    /\ fpc[i] = "loop"
    /\ ret.at[i] < Len(ret.out[i].assets)
    /\ \E a \in { ret.out[i].assets[ret.at[i] + 1] } :
       \E sched \in { amortization_schedule(10 * a.loan_usd, a.interest_rate,
                                            Load(ret.scope, "months", i),
                                            a.interest_rate \in ret.lib[i].fars) } :
          ret' = [ret EXCEPT
                    !.scope =
                        Bind(Bind(@, "per_asset_sched", i,
                                  DictPut(Load(@, "per_asset_sched", i), a.symbol,
                                          sched.schedule)),
                             "per_asset_payment", i,
                             DictPut(Load(@, "per_asset_payment", i), a.symbol,
                                     sched.payment)),
                    !.at[i] = @ + 1]
    /\ UNCHANGED <<arg, fpc, hvars, risk_tiers>>

\* lines 193-205, after the loop
AttachFinish(i) ==
    /\ fpc[i] = "loop"
    /\ ret.at[i] = Len(ret.out[i].assets)
    /\ \E out \in { AttachSchedules(ret.out[i],
                                    [sched |-> Load(ret.scope, "per_asset_sched", i),
                                     payment |-> Load(ret.scope, "per_asset_payment", i)]) } :
          /\ ret' = [ret EXCEPT !.out[i] = out]
          /\ fpc' = [fpc EXCEPT ![i] = IF IsRaised(out) THEN "raised" ELSE "done"]
    /\ UNCHANGED <<arg, hvars, risk_tiers>>

ConcPrice == \E i \in 1..2 : PriceOf(i)
ConcAggregate == \E i \in 1..2 : AggregateOf(i)
ConcBegin == \E i \in 1..2 : AttachBegin(i)
ConcAsset == \E i \in 1..2 : AttachAsset(i)
ConcFinish == \E i \in 1..2 : AttachFinish(i)

NextConcurrent == ConcPrice \/ ConcAggregate \/ ConcBegin \/ ConcAsset \/ ConcFinish

SpecConcurrent == InitConcurrent /\ [][NextConcurrent]_vars

\* [value |-> the rows of a request priced one after the other by a process
\* that runs nothing else], or the first error raised
RECURSIVE RowsAlone(_, _)
RowsAlone(assets, acc) ==
    IF assets = <<>> THEN [value |-> acc]
    ELSE LET a == Head(assets)
             row == per_asset_breakdown(a.alloc, a.tier, a.metrics, a.symbol)
         IN  IF IsRaised(row) THEN row
             ELSE RowsAlone(Tail(assets), Append(acc, row))

\* the profile of a request that runs alone, priced, aggregated and
\* amortized call after call, for the same outcomes of the library's pow
ProfileAlone(r, lib) ==
    The({ IF IsRaised(rows) THEN rows
          ELSE attach_amortization(
                 [assets |-> rows.value,
                  summary |-> portfolio_aggregate(rows.value, r.months, lib.far)],
                 lib.fars) :
          rows \in { RowsAlone(r.assets, <<>>) } })

----------------------------------------------------------------------------
(* src/src/services/model_client.py: ModelClient.risk_tier.  A volatility  *)
(* score is an integer of 1/100, a confidence an integer of 1/100.         *)

\* settings.AI_PROVIDER, src/src/utils/config.py line 8, with AI_PROVIDER
\* not set in the environment
AI_PROVIDER == "groq"

\* _get_volatility, lines 25-44: a number or None.  fetch is what
\* get_metrics(symbol) did: it raised, or returned a bundle with this
\* volatility_score
get_volatility(fetch, context) ==
    LET fetched == IF fetch.failed THEN PyNone ELSE fetch.volatility_score
        vs == IF fetched = PyNone
              THEN PyOr(context.volatility_score, context.volatility)
              ELSE fetched
    IN  IF vs.t = "num" THEN vs ELSE PyNone

\* the thresholds belong to the band above them
heuristic_from_vol_strict(vs) ==
    IF vs = PyNone THEN [tier |-> "Tier 2", score |-> 50]
    ELSE IF vs.v < 1000 THEN [tier |-> "Tier 1.5", score |-> 60]
    ELSE IF vs.v < 2500 THEN [tier |-> "Tier 2", score |-> 60]
    ELSE [tier |-> "Tier 3", score |-> 60]
\* _heuristic_from_vol, lines 46-57
heuristic_from_vol(vs) ==
    IF vs = PyNone THEN [tier |-> "Tier 2", score |-> 50]
    ELSE IF vs.v <= 1000 THEN [tier |-> "Tier 1.5", score |-> 60]
    ELSE IF vs.v <= 2500 THEN [tier |-> "Tier 2", score |-> 60]
    ELSE [tier |-> "Tier 3", score |-> 60]

\* lines 103-108 on the text the model replied: [tier, score], or the
\* exception of json.loads, of data.get on a value that is no dict, or of
\* float(score): TypeError for null, ValueError for text that is no number
parse_reply(reply) ==
    IF reply.kind = "not_json" THEN Raise("JSONDecodeError")
    ELSE IF reply.kind = "not_dict" THEN Raise("AttributeError")
    ELSE LET tier == IF "tier" \in reply.keys THEN reply.tier ELSE "Tier 2"
             score == IF "score" \in reply.keys THEN reply.score ELSE PyNum(70)
         IN  IF score.t = "num" THEN [tier |-> tier, score |-> score.v]
             ELSE IF score = PyNone THEN Raise("TypeError")
             ELSE Raise("ValueError")

\* the volatility_score of the fetched bundle: none, numbers on each side of
\* the thresholds, and text
VolScoreSet ==
    {PyNone, PyNum(0), PyNum(1000), PyNum(1001), PyNum(2500), PyNum(2501), PyText}

\* get_metrics raises, or returns a bundle
ClassifierFetchSet ==
    { [failed |-> TRUE, volatility_score |-> PyNone] }
    \cup { [failed |-> FALSE, volatility_score |-> v] : v \in VolScoreSet }

\* the context of the caller: the handler's has neither key
ContextSet ==
    [volatility_score : {PyNone, PyNum(0), PyNum(2600)},
     volatility : {PyNone, PyNum(500)}]

\* what the model replies: text that is no JSON, JSON that is no object, or
\* an object with or without the keys tier and score
ReplySet ==
    { [kind |-> "not_json", keys |-> {}, tier |-> "", score |-> PyNone],
      [kind |-> "not_dict", keys |-> {}, tier |-> "", score |-> PyNone],
      [kind |-> "dict", keys |-> {}, tier |-> "", score |-> PyNone],
      [kind |-> "dict", keys |-> {"tier"}, tier |-> "Tier 1", score |-> PyNone],
      [kind |-> "dict", keys |-> {"tier", "score"}, tier |-> "Tier 4", score |-> PyNum(90)],
      [kind |-> "dict", keys |-> {"tier", "score"}, tier |-> "Tier 1", score |-> PyText],
      [kind |-> "dict", keys |-> {"tier", "score"}, tier |-> "Tier 1", score |-> PyNone] }

\* the import of groq, the client or the completion call raises, or the
\* call returns a reply
OracleOutcomeSet ==
    { [raises |-> TRUE, reply |-> [kind |-> "not_json", keys |-> {}, tier |-> "",
                                  score |-> PyNone]] }
    \cup { [raises |-> FALSE, reply |-> r] : r \in ReplySet }

InitClassify ==
    /\ HandlerIdle
    /\ risk_tiers = RISK_TIERS
    /\ arg \in [fetch : ClassifierFetchSet, context : ContextSet,
                oracle : OracleOutcomeSet]
    /\ ret = [vs |-> PyNone, result |-> NoValue]
    /\ fpc = "risk_tier"

\* risk_tier, lines 18-21
CallRiskTier ==
    /\ fpc = "risk_tier"
    /\ IF AI_PROVIDER = "groq"
       THEN ret' = ret /\ fpc' = "get_volatility"
       ELSE ret' = [ret EXCEPT !.result = Raise("ValueError")] /\ fpc' = "raised"
    /\ UNCHANGED <<arg, hvars, risk_tiers>>

\* line 63
GetVolatility ==
    /\ fpc = "get_volatility"
    /\ ret' = [ret EXCEPT !.vs = get_volatility(arg.fetch, arg.context)]
    /\ fpc' = "check_score"
    /\ UNCHANGED <<arg, hvars, risk_tiers>>

\* lines 66-68
MissingScore ==
    /\ fpc = "check_score"
    /\ ret.vs = PyNone
    /\ ret' = [ret EXCEPT !.result = heuristic_from_vol(ret.vs)]
    /\ fpc' = "ret"
    /\ UNCHANGED <<arg, hvars, risk_tiers>>

\* lines 70-101, and 110-112 when they raise
AskOracle ==
    /\ fpc = "check_score"
    /\ ret.vs # PyNone
    /\ IF arg.oracle.raises
       THEN ret' = [ret EXCEPT !.result = heuristic_from_vol(ret.vs)] /\ fpc' = "ret"
       ELSE ret' = ret /\ fpc' = "parse"
    /\ UNCHANGED <<arg, hvars, risk_tiers>>

\* lines 103-108, and 110-112 when they raise
ParseReply ==
    /\ fpc = "parse"
    /\ LET parsed == parse_reply(arg.oracle.reply)
       IN  ret' = [ret EXCEPT !.result =
                     IF IsRaised(parsed) THEN heuristic_from_vol(ret.vs) ELSE parsed]
    /\ fpc' = "ret"
    /\ UNCHANGED <<arg, hvars, risk_tiers>>

NextClassify ==
    CallRiskTier \/ GetVolatility \/ MissingScore \/ AskOracle \/ ParseReply

SpecClassify == InitClassify /\ [][NextClassify]_vars

\* the fetch gave no number and the context has none to fall back on
ScoreUnavailable ==
    IF arg.fetch.failed \/ arg.fetch.volatility_score = PyNone
    THEN ~Truthy(arg.context.volatility_score) /\ ~Truthy(arg.context.volatility)
    ELSE arg.fetch.volatility_score.t # "num"

\* the call of the model raised, or its reply is no JSON, no object, or has
\* a score that is no number
OracleFailed ==
    \/ arg.oracle.raises
    \/ arg.oracle.reply.kind # "dict"
    \/ ("score" \in arg.oracle.reply.keys /\ arg.oracle.reply.score.t # "num")

\* C24: when the classification oracle fails or the volatility score is
\* unavailable, risk_tier does not raise and returns the heuristic tier of the
\* volatility score alone: no score -> Tier 2; score <= 10 -> Tier 1.5;
\* score <= 25 -> Tier 2; otherwise Tier 3.
C24_HeuristicFallback ==
    /\ fpc # "raised"
    /\ (fpc = "ret" /\ ScoreUnavailable) =>
            /\ ret.vs = PyNone
            /\ ret.result.tier = "Tier 2"
    /\ (fpc = "ret" /\ ~ScoreUnavailable /\ OracleFailed) =>
            /\ ret.vs.t = "num"
            /\ ret.result.tier = IF ret.vs.v <= 1000 THEN "Tier 1.5"
                                 ELSE IF ret.vs.v <= 2500 THEN "Tier 2"
                                 ELSE "Tier 3"

\* the call of the model raised for a score of exactly 10, and the reply
\* could not be parsed for a score of 25.01
C24_Witness ==
    /\ fpc = "ret"
    /\ \/ /\ arg.oracle.raises
          /\ ret.vs = PyNum(1000)
          /\ ret.result = [tier |-> "Tier 1.5", score |-> 60]
       \/ /\ ~arg.oracle.raises /\ arg.oracle.reply.kind = "not_json"
          /\ ret.vs = PyNum(2501)
          /\ ret.result = [tier |-> "Tier 3", score |-> 60]

----------------------------------------------------------------------------
(* src/src/utils/http.py: get(url, timeout, retries), the client that      *)
(* get_metrics calls with the defaults timeout=10, retries=2.  ret holds   *)
(* the loop variable, the attempts and waits so far in order, and the      *)
(* outcome of the call.  Waits are in tenths of a second.                  *)

\* the most retries asked for; get_metrics asks for the default, 2
MaxRetries == 2

\* how an attempt can fail: requests.get raises (line 11), raise_for_status
\* raises (line 12), or the body is no JSON (line 13)
FailureSet == {"ConnectionError", "HTTPError", "JSONDecodeError"}

\* no attempt counts as the last one
LastAttemptNever(attempt, retries) == FALSE
\* attempt == retries, line 16
LastAttempt(attempt, retries) == attempt = retries

\* 0.5 * (attempt + 1), line 18
Backoff(attempt) == 5 * (attempt + 1)

InitHttp ==
    /\ HandlerIdle
    /\ risk_tiers = RISK_TIERS
    /\ arg \in [timeout : {10}, retries : -1..MaxRetries]
    /\ ret = [attempt |-> 0, events |-> <<>>, result |-> NoValue]
    /\ fpc = "for"

\* line 9: the next value of range(retries + 1), or the end of the loop and
\* of the function, which returns None
ForNext ==
    /\ fpc = "for"
    /\ IF ret.attempt < arg.retries + 1
       THEN ret' = ret /\ fpc' = "try"
       ELSE ret' = [ret EXCEPT !.result = PyNone] /\ fpc' = "returned"
    /\ UNCHANGED <<arg, hvars, risk_tiers>>

\* lines 11-13, all three succeed: the body of this attempt's response is
\* returned
AttemptSucceeds ==
    /\ fpc = "try"
    /\ ret' = [ret EXCEPT
                 !.events = Append(@, [e |-> "attempt", n |-> ret.attempt,
                                       out |-> "ok", wait |-> 0]),
                 !.result = [response |-> ret.attempt]]
    /\ fpc' = "returned"
    /\ UNCHANGED <<arg, hvars, risk_tiers>>

\* lines 11-15: one of the three raises, within the timeout
AttemptFails ==
    /\ fpc = "try"
    /\ \E x \in FailureSet :
        ret' = [ret EXCEPT
                  !.events = Append(@, [e |-> "attempt", n |-> ret.attempt,
                                        out |-> x, wait |-> 0])]
    /\ fpc' = "except"
    /\ UNCHANGED <<arg, hvars, risk_tiers>>

\* lines 16-17: the exception being handled is raised again, or the wait is
\* next
RaiseOrWait ==
    /\ fpc = "except"
    /\ IF LastAttempt(ret.attempt, arg.retries)
       THEN /\ ret' = [ret EXCEPT !.result =
                         [raised |-> ret.events[Len(ret.events)].out,
                          attempt |-> ret.attempt]]
            /\ fpc' = "raised"
       ELSE ret' = ret /\ fpc' = "sleep"
    /\ UNCHANGED <<arg, hvars, risk_tiers>>

\* line 18, then the loop goes on
Sleep ==
    /\ fpc = "sleep"
    /\ ret' = [ret EXCEPT
                 !.events = Append(@, [e |-> "sleep", n |-> ret.attempt, out |-> "",
                                       wait |-> Backoff(ret.attempt)]),
                 !.attempt = @ + 1]
    /\ fpc' = "for"
    /\ UNCHANGED <<arg, hvars, risk_tiers>>

NextHttp == ForNext \/ AttemptSucceeds \/ AttemptFails \/ RaiseOrWait \/ Sleep

SpecHttp == InitHttp /\ [][NextHttp]_vars

\* the thread that runs get keeps running: an attempt ends within the
\* timeout and a wait ends
SpecHttpLive == SpecHttp /\ WF_vars(NextHttp)

\* the attempts made so far, in order
AttemptsMade == SelectSeq(ret.events, LAMBDA ev : ev.e = "attempt")

\* what the claim says of the call so far: at most retries + 1 attempts; no
\* event after a successful attempt; a positive wait after a failed attempt
\* before the next one; a response returned is that of the attempt that
\* succeeded; a failure is raised only after attempt number retries + 1
\* failed, and is that attempt's failure
HttpSoFar ==
    LET ev == ret.events
        made == AttemptsMade
    IN  /\ Len(made) <= IF arg.retries < 0 THEN 0 ELSE arg.retries + 1
        /\ \A i \in 1..Len(made) : made[i].n = i - 1
        /\ \A i \in 1..Len(ev) :
              /\ (ev[i].e = "attempt" /\ ev[i].out = "ok") => i = Len(ev)
              /\ (ev[i].e = "attempt" /\ i < Len(ev)) =>
                    ev[i + 1].e = "sleep" /\ ev[i + 1].wait > 0
              /\ (ev[i].e = "sleep" /\ i < Len(ev)) => ev[i + 1].e = "attempt"
        /\ fpc = "returned" =>
              IF arg.retries < 0 THEN ret.result = PyNone /\ ev = <<>>
              ELSE /\ Len(ev) > 0
                   /\ ev[Len(ev)].out = "ok"
                   /\ ret.result = [response |-> ev[Len(ev)].n]
        /\ fpc = "raised" =>
              /\ Len(made) = arg.retries + 1
              /\ \A i \in 1..Len(made) : made[i].out \in FailureSet
              /\ ret.result = [raised |-> made[Len(made)].out, attempt |-> arg.retries]

\* C25: get always terminates, after at most retries + 1 attempts: it returns
\* the response of the first successful attempt and makes no further attempt
\* after it, waits between consecutive failed attempts, and raises the last
\* failure only after attempt number retries + 1 has failed.
C25_TerminatesWithinRetries ==
    /\ []HttpSoFar
    /\ <>(fpc \in {"returned", "raised"})

\* with retries=2 the first two attempts failed, each followed by its wait
\* (0.5 s, then 1.0 s), and the third attempt's response was returned
C25_Witness ==
    /\ fpc = "returned"
    /\ arg.retries = 2
    /\ Len(ret.events) = 5
    /\ ret.events[1].out = "ConnectionError" /\ ret.events[3].out = "HTTPError"
    /\ ret.events[2].wait = 5 /\ ret.events[4].wait = 10
    /\ ret.result = [response |-> 2]

----------------------------------------------------------------------------
(* POST /loan/calculate: src/src/api/routes.py, loan_calculate, with the    *)
(* error handlers of src/src/app.py.                                        *)
(*                                                                          *)
(* A request body is [assets, months]. A key that is missing, null or empty *)
(* reads like the empty value of its type, as `a.get(k) or <empty>` makes   *)
(* them all: "" for symbol and tier, 0 for allocation_usd and months.       *)

\* months = int(body.get("months") or 6), line 19
DefaultMonths == 6

\* the symbols a request names, as sent
ReqSymbolSet == {"", "BTC", "usdt"}

\* str.upper() on those symbols, line 25
Upper(s) ==
    CASE s = "btc"  -> "BTC"
      [] s = "usdt" -> "USDT"
      [] OTHER      -> s

\* allocation_usd in mills: missing or zero, and 100.00
ReqAllocSet == {0, 100000}

\* tier overrides: none, a table tier, a tier outside the table
ReqTierSet == {"", "Tier 1.5", "Tier 9"}

\* months: missing, and a term of 2
ReqMonthsSet == {0, 2}

ReqAssetSet == [symbol : ReqSymbolSet, allocation_usd : ReqAllocSet, tier : ReqTierSet]

RequestSet ==
    [assets : UNION { [1..k -> ReqAssetSet] : k \in 0..MaxAssets },
     months : ReqMonthsSet]

\* what ModelClient.risk_tier may answer: a table tier from the heuristic or
\* the LLM, or whatever else the LLM's JSON carries under "tier"
ClassifierTierSet == {"Tier 2", "Tier 4"}

\* what get_metrics may do: raise, or return a bundle
FetchOutcomeSet ==
    { [failed |-> TRUE, metrics |-> NoMetrics],
      [failed |-> FALSE, metrics |-> [NoMetrics EXCEPT !.pct_change_30d = PyNum(2000)]] }

\* src/src/app.py, lines 21-29: an AppError answers with its status_code and
\* message, any other exception with 500 internal_error
AppErrors == {"BadRequest", "AppError", "UpstreamError"}

ErrorResponse(exc) ==
    IF exc.raised \in AppErrors
    THEN [status |-> exc.status_code, body |-> [error |-> exc.message]]
    ELSE [status |-> 500, body |-> [error |-> "internal_error"]]

\* src/src/domain/errors.py: BadRequest(message), status_code 400
BadRequest(message) ==
    [raised |-> "BadRequest", status_code |-> 400, message |-> message]

\* line 19
MonthsOf(body) == IF body.months # 0 THEN body.months ELSE DefaultMonths

\* lines 25-27: the locals of a pass of the loop, before the tier is chosen
Frame(a) ==
    [symbol |-> Upper(a.symbol), alloc |-> a.allocation_usd, tier_req |-> a.tier,
     tier |-> "", classified |-> FALSE, fetch |-> "none", metrics |-> NoMetrics,
     priced |-> FALSE]

\* line 28
InvalidAsset(f) == f.symbol = "" \/ f.alloc <= 0

\* lines 32 and 35: the classifier is asked when neither branch fixes the tier
NeedsClassifierAlways(f) == f.tier_req = ""
NeedsClassifier(f) == ~(f.symbol = "USDT" /\ f.tier_req = "") /\ f.tier_req = ""

\* lines 33 and 35: the tier when the classifier is not asked
FixedTier(f) == IF f.symbol = "USDT" /\ f.tier_req = "" THEN "Tier 1" ELSE f.tier_req

\* lines 38-42: the metrics the pass goes on with, whatever get_metrics did
MetricsAfterFetchRaising(o) == IF o.failed THEN Raise("ConnectionError") ELSE o.metrics
MetricsAfterFetch(o) == IF o.failed THEN NoMetrics ELSE o.metrics

Cur == iter[Len(iter)]
SetCur(f) == [iter EXCEPT ![Len(iter)] = f]

Init ==
    /\ EngineIdle
    /\ risk_tiers = RISK_TIERS
    /\ req \in RequestSet
    /\ pc = "start"
    /\ iter = <<>>
    /\ hrows = <<>>
    /\ resp = NoValue

\* lines 17-23
Start ==
    /\ pc = "start"
    /\ IF req.assets = <<>>
       THEN /\ resp' = ErrorResponse(BadRequest("assets is required"))
            /\ pc' = "done"
       ELSE /\ resp' = resp
            /\ pc' = "validate"
    /\ UNCHANGED <<req, iter, hrows, fvars, risk_tiers>>

\* lines 24-29: the next asset is read and validated
Validate ==
    /\ pc = "validate"
    /\ LET f == Frame(req.assets[Len(iter) + 1])
       IN  /\ iter' = Append(iter, f)
           /\ IF InvalidAsset(f)
              THEN /\ resp' = ErrorResponse(
                        BadRequest("asset symbol and positive allocation_usd required"))
                   /\ pc' = "done"
              ELSE /\ resp' = resp
                   /\ pc' = "tier"
    /\ UNCHANGED <<req, hrows, fvars, risk_tiers>>

\* lines 32-35 when the tier is fixed by the USDT rule or by the override
SetTier ==
    /\ pc = "tier"
    /\ ~NeedsClassifier(Cur)
    /\ iter' = SetCur([Cur EXCEPT !.tier = FixedTier(Cur)])
    /\ pc' = "metrics"
    /\ UNCHANGED <<req, hrows, resp, fvars, risk_tiers>>

\* line 35 when _model.risk_tier is called
Classify ==
    /\ pc = "tier"
    /\ NeedsClassifier(Cur)
    /\ \E t \in ClassifierTierSet :
          iter' = SetCur([Cur EXCEPT !.tier = t, !.classified = TRUE])
    /\ pc' = "metrics"
    /\ UNCHANGED <<req, hrows, resp, fvars, risk_tiers>>

\* lines 38-42
FetchMetrics ==
    /\ pc = "metrics"
    /\ \E o \in FetchOutcomeSet :
          LET m == MetricsAfterFetch(o)
          IN  IF IsRaised(m)
              THEN /\ iter' = SetCur([Cur EXCEPT !.fetch = "failed"])
                   /\ resp' = ErrorResponse(m)
                   /\ pc' = "done"
              ELSE /\ iter' = SetCur([Cur EXCEPT
                                        !.fetch = IF o.failed THEN "failed" ELSE "ok",
                                        !.metrics = m])
                   /\ resp' = resp
                   /\ pc' = "price"
    /\ UNCHANGED <<req, hrows, fvars, risk_tiers>>

\* lines 44-45, and the loop's test
PriceRow ==
    /\ pc = "price"
    /\ LET row == per_asset_breakdown(Cur.alloc, Cur.tier, Cur.metrics, Cur.symbol)
       IN  IF IsRaised(row)
           THEN /\ resp' = ErrorResponse(row)
                /\ pc' = "done"
                /\ UNCHANGED <<iter, hrows>>
           ELSE /\ hrows' = Append(hrows, row)
                /\ iter' = SetCur([Cur EXCEPT !.priced = TRUE])
                /\ resp' = resp
                /\ pc' = IF Len(iter) < Len(req.assets) THEN "validate" ELSE "respond"
    /\ UNCHANGED <<req, fvars, risk_tiers>>

\* lines 47-53
Respond ==
    /\ pc = "respond"
    /\ \E far \in BOOLEAN :
       \E summary \in { portfolio_aggregate(hrows, MonthsOf(req), far) } :
          resp' = [status |-> 200,
                   body |-> [assets |-> hrows,
                             summary |-> [summary EXCEPT !.months = MonthsOf(req)]]]
    /\ pc' = "done"
    /\ UNCHANGED <<req, iter, hrows, fvars, risk_tiers>>

Next == Start \/ Validate \/ SetTier \/ Classify \/ FetchMetrics \/ PriceRow \/ Respond

Spec == Init /\ [][Next]_vars

TableTiers == DOMAIN RISK_TIERS

\* C5 (as claimed): a profile loan_calculate returns carries a schedule, and
\* its monthly_emi is the sum of the level payments of its assets' schedules.
C5_ReturnedProfileAmortized ==
    (pc = "done" /\ resp.status = 200)
        => /\ "schedule" \in DOMAIN resp.body
           /\ \E fars \in SUBSET RatesOf(resp.body.assets) :
                resp.body.summary.monthly_emi
                    = LevelPaymentsOf(resp.body.assets, resp.body.summary.months, fars)

\* C6 (as claimed): when loan_calculate rejects a request for an invalid
\* asset, no asset of the request has been classified, had its metrics
\* fetched or been priced.
C6_RejectedBeforeAnyWork ==
    (pc = "done" /\ iter # <<>> /\ InvalidAsset(Cur))
        => /\ resp.status = 400
           /\ hrows = <<>>
           /\ \A k \in 1..Len(iter) :
                 ~iter[k].classified /\ iter[k].fetch = "none" /\ ~iter[k].priced

\* C7 (as claimed): the answer to a request in which some asset carries a
\* tier override outside the table is a client-side error, 4xx.
C7_UnknownOverrideIs4xx ==
    (pc = "done" /\ \E k \in 1..Len(req.assets) :
                       req.assets[k].tier \notin TableTiers \cup {""})
        => resp.status \in 400..499

\* C9: a failed metrics fetch never ends the request: the pass goes on to
\* pricing with absent metrics, the asset's row has volatility_premium 0.01
\* and no pct_change_30d, the rows of the other assets are what per_asset_
\* breakdown gives for their own tier and metrics, and no error response
\* comes from a pass that is still fetching.
C9_FetchFailureTolerated ==
    /\ \A k \in 1..Len(iter) :
          iter[k].fetch = "failed" =>
             /\ iter[k].metrics = NoMetrics
             /\ (k = Len(iter) => pc \in {"price", "validate", "respond", "done"})
             /\ (k = Len(iter) /\ pc = "done" /\ resp.status # 200
                   => ~iter[k].priced /\ iter[k].tier \notin TableTiers)
    /\ Len(hrows) = Cardinality({k \in 1..Len(iter) : iter[k].priced})
    /\ \A k \in 1..Len(hrows) :
          /\ iter[k].priced
          /\ hrows[k] = per_asset_breakdown(iter[k].alloc, iter[k].tier,
                                           iter[k].metrics, iter[k].symbol)
          /\ iter[k].fetch = "failed" =>
                /\ hrows[k].volatility_premium = 100
                /\ hrows[k].pct_change_30d = PyNone

\* a request of two assets was answered 200 after the fetch failed for the
\* first and succeeded, with a 20% change, for the second
C9_Witness ==
    /\ pc = "done" /\ resp.status = 200
    /\ Len(hrows) = 2
    /\ iter[1].fetch = "failed" /\ iter[2].fetch = "ok"
    /\ resp.body.assets[1].volatility_premium = 100
    /\ resp.body.assets[2].volatility_premium = 200

\* C10: a USDT asset without override gets Tier 1 and no classifier call; an
\* asset with an override gets the override and no classifier call; the
\* classifier is called only for assets without override that are not USDT;
\* rows carry the tier so chosen.
C10_TierChoice ==
    /\ \A k \in 1..Len(iter) :
          LET f == iter[k]
              chosen == k < Len(iter) \/ pc \notin {"tier", "done"} \/ f.tier # ""
          IN  /\ f.classified => f.tier_req = "" /\ f.symbol # "USDT"
              /\ (chosen /\ f.symbol = "USDT" /\ f.tier_req = "")
                    => f.tier = "Tier 1" /\ ~f.classified
              /\ (chosen /\ f.tier_req # "")
                    => f.tier = f.tier_req /\ ~f.classified
    /\ \A k \in 1..Len(hrows) : hrows[k].tier = iter[k].tier

\* a request was answered 200 for a USDT asset without override, sent in
\* lower case, and a BTC asset with an override
C10_Witness ==
    /\ pc = "done" /\ resp.status = 200
    /\ Len(hrows) = 2
    /\ \E j, k \in 1..2 :
          /\ iter[j].symbol = "USDT" /\ iter[j].tier_req = ""
          /\ hrows[j].tier = "Tier 1"
          /\ iter[k].symbol = "BTC" /\ iter[k].tier_req = "Tier 1.5"
          /\ hrows[k].tier = "Tier 1.5"

====
